---- MODULE Spec2Model ----
(***************************************************************************)
(* Verification model of the workflow core of chrome-bookmark-organizer:   *)
(*   - crates/a2a: TaskManager (manager.rs), A2ATask (task.rs) and the      *)
(*     Redis-backed QueueService (queue.rs);                                *)
(*   - crates/ai-ops-core: EventStore (events/store.rs).                    *)
(* Each component has its own specification over the shared variables.     *)
(***************************************************************************)
EXTENDS Integers, Sequences, FiniteSets, TLC

(***************************************************************************)
(* Bounds of the model.                                                    *)
(***************************************************************************)
MaxTasks == 2

MaxArtifacts == 1

MaxFailures == 1

MaxMissingAgents == 1

MaxStatusUpdates == 1

MaxQueueTasks == 2

MaxEvents == 2

MaxEventIds == 2

MaxImport == 2

MaxStores == 3

MaxLimit == 2

(***************************************************************************)
(* Program constants.                                                      *)
(***************************************************************************)
\* i32::MIN, the floor of QueueTask.priority (queue.rs:14).
IntMin == (-2147483647) - 1

\* priority given to every queue entry by queue_next_agent (manager.rs:198).
InitialPriority == 10

\* attempts given to every queue entry by queue_next_agent (manager.rs:199).
InitialAttempts == 0

\* requeue moves a task to the dead letter queue when attempts > 3 (queue.rs:95).
MaxRetryAttempts == 3

\* requeue lowers the priority by 10 (queue.rs:103).
PriorityPenalty == 10

\* TaskQueue names (queue.rs:125-129).
IMPORT == "a2a:queue:import"

VALIDATION == "a2a:queue:validation"

ENRICHMENT == "a2a:queue:enrichment"

CATEGORIZATION == "a2a:queue:categorization"

EMBEDDING == "a2a:queue:embedding"

\* The (queue, agent type) pairs start_processor spawns a consumer for.
ProcessorQueues ==
    { <<IMPORT, "import">>, <<VALIDATION, "validation">>,
      <<ENRICHMENT, "enrichment">>, <<CATEGORIZATION, "categorization">>,
      <<EMBEDDING, "embedding">> }

Queues == { p[1] : p \in ProcessorQueues }

AgentTypes == { p[2] : p \in ProcessorQueues }

\* agent type the consumer of queue q passes to process_task.
AgentOf(q) == (CHOOSE p \in ProcessorQueues : p[1] = q)[2]

\* format!("{}:dead", queue_name)
DeadName(q) == q \o ":dead"

RedisKeys == Queues \cup { DeadName(q) : q \in Queues }

\* WorkflowDefinition.agents of the built-in workflows.
Workflows ==
    [ bookmark_processing |->
          << "import", "validation", "enrichment", "categorization", "embedding" >>,
      import_only |-> << "import" >>,
      validate_enrich |-> << "validation", "enrichment" >> ]

WorkflowTypes == DOMAIN Workflows

\* WorkflowDefinition.name of the built-in workflows.
WorkflowName ==
    [ bookmark_processing |-> "Bookmark Processing",
      import_only |-> "Import Only",
      validate_enrich |-> "Validate and Enrich" ]

TaskStatus == { "pending", "running", "completed", "failed", "cancelled" }

TerminalStatus == { "completed", "failed", "cancelled" }

\* Option::None
None == "None"

(***************************************************************************)
(* State.                                                                  *)
(***************************************************************************)
VARIABLES
    agents,     \* TaskManager.agents: the registered agent types
    tasks,      \* TaskManager.tasks: task id (creation order) -> A2ATask
    redis,      \* the sorted sets behind QueueService, in arrival order
    pc,         \* position of each queue consumer inside process_queue
    held,       \* the QueueTask a consumer has dequeued: << >> or << task >>
    executed,   \* history: agents whose execute_task was invoked, per task
    returned,   \* history: artifacts returned by successful executions, per task
    deliveries, \* history: process_task calls per (task, agent type)
    failures,   \* history: Redis operations that have failed so far
    statusUpdates, \* history: update_task_status calls made from outside
    events,     \* EventStore.events: the ring, oldest first
    indexes,    \* EventStore.indexes: by_type, by_source, by_correlation, by_causation
    capacity,   \* EventStore.max_events: the capacity given to with_capacity
    storeLog,   \* history: events passed to store since with_capacity / clear
    exported,   \* the last export_json result: << >> or << [ring, json] >>
    queried,    \* the last query call and its result: << >> or << [..] >>
    importResult    \* the last import_json result: << >> or << [ok, count] >>

tmVars == << agents, tasks, redis, pc, held, executed, returned, deliveries,
             failures, statusUpdates >>

esVars == << events, indexes, capacity, storeLog, exported, queried, importResult >>

\* what the callers of the ring specification add to the store's own state.
ringVars == << capacity, storeLog, exported, queried, importResult >>

\* EventRouter (events/router.rs) and the calls made on it.
VARIABLES
    routes,           \* EventRouter.routes: the Vec<Route>
    default_handler,  \* EventRouter.default_handler: << >> or << handler >>
    added,            \* the number of add_route calls so far
    routed            \* the last route call: << >> or << [event, invoked, ..] >>

routerVars == << routes, default_handler, added, routed >>

\* EventMesh (events/mesh.rs), its Redis streams and its spawned tasks.
VARIABLES
    streams,        \* the Redis streams: key -> entries in arrival order
    processors,     \* EventMesh.processors: the Vec of processors
    spawned,        \* the processor tasks spawned and not yet run
    processed,      \* (processor, publish call) -> number of process calls
    subscriptions,  \* EventMesh.subscriptions: name -> << >> or << sub >>
    consumers,      \* the consumer task of each subscription name
    handled,        \* (name, publish call) -> number of handle calls
    published       \* the publish calls so far, with their results

meshVars == << streams, processors, spawned, processed, subscriptions,
               consumers, handled, published >>

\* KnowledgeGraph (knowledge/mod.rs), its table and the calls made on it.
VARIABLES
    nodes,       \* the rows of knowledge_nodes, in insertion order
    node_cache,  \* KnowledgeGraph.node_cache: id -> << >> or << node >>
    clock,       \* Utc::now()
    kgCalls,     \* the calls so far, with their arguments and results
    edges,       \* the rows of knowledge_edges, in insertion order
    solutionsFound  \* the last find_solutions call: << >> or << [..] >>

kgVars == << nodes, node_cache, clock, kgCalls, edges, solutionsFound >>

\* ServiceRegistry (registry/mod.rs) and the calls made on it.
VARIABLES
    services,            \* ServiceRegistry.services: id -> << >> or << definition >>
    capabilities_index,  \* ServiceRegistry.capabilities_index: capability -> Vec of ids
    health_tracker,      \* ServiceRegistry.health_tracker: id -> << >> or << health >>
    registryCalls,       \* the number of calls so far
    servicesFound        \* the last find_by_capability call: << >> or << [..] >>

regVars == << services, capabilities_index, health_tracker, registryCalls,
             servicesFound >>

\* PatternLibrary (patterns/mod.rs) and the calls made on it.
VARIABLES
    patterns,      \* PatternLibrary.patterns, in the order of add_pattern
    category_index,  \* PatternLibrary.category_index: category -> Vec of ids
    detected,      \* the last detect_patterns call: << >> or << [..] >>
    applied,       \* the last apply_pattern call: << >> or << [..] >>
    libraryCalls   \* the number of calls so far

libVars == << patterns, category_index, detected, applied, libraryCalls >>

\* PatternMatcher (knowledge/patterns.rs) and the calls made on it.
VARIABLES
    matcherPatterns,  \* PatternMatcher.patterns: the Vec of compiled patterns
    matchesFound      \* the last match_event call: << >> or << [..] >>

matchVars == << matcherPatterns, matchesFound >>

\* BatchingProcessor (events/processor.rs), its ticker and its clones.
VARIABLES
    batch_size,    \* BatchingProcessor.batch_size, 0 before BatchingProcessor::new
    buffer,        \* BatchingProcessor.buffer of the processor new returned
    batches,       \* the calls of process_batch so far, with their events
    handed,        \* the events handed to the processor so far, and how
    cloneDropped   \* the buffers of the clones dropped so far

batchVars == << batch_size, buffer, batches, handed, cloneDropped >>

\* one consumer task of the event mesh (events/mesh.rs), step by step, and
\* the Redis stream and consumer group it reads.
VARIABLES
    stream_entries,  \* the entries of the stream the consumer reads, in order
    group_cursor,    \* the consumer group: the number of entries delivered
    acked,           \* the consumer group: the ids acknowledged with XACK
    reply,           \* read_stream: the messages of the reply not yet looked at
    read_events,     \* read_stream: the Vec<Event> collected so far
    stream_handled,  \* the calls of handle_stream_event so far
    consumer_pc      \* where the consumer task is

consumerVars == << stream_entries, group_cursor, acked, reply, read_events,
                  stream_handled, consumer_pc >>

\* the tasks lock of the task manager (a2a manager.rs) and the calls that
\* take it, step by step, each made by one of the threads of the runtime.
VARIABLES
    tasks_lock,      \* TaskManager.tasks as an RwLock: who holds a read or the write guard
    thread_pc,       \* where each thread is inside the call it is making
    thread_call,     \* the call each thread is making and its arguments
    snapshot,        \* process_task: the task cloned by get_task, << >> or << task >>
    execute_result,  \* process_task: what execute_task returned, << >> or << [..] >>
    pending,         \* queue_next_agent: the QueueTask built under the lock
    overlapped,      \* history: the calls that began and ended inside one execute_task
    lockCalls        \* history: the calls made so far

lockVars == << tasks_lock, thread_pc, thread_call, snapshot, execute_result,
               pending, overlapped, lockCalls >>

\* add_problem of the knowledge graph (knowledge/mod.rs) called from several
\* tasks at once, one step per statement sent to the database.
VARIABLES
    add_pc,       \* where each caller is inside add_problem
    add_arg,      \* the problem each caller passed: << >> or << problem >>
    add_found,    \* what find_similar_problem returned: << >> or << id >>
    add_overlap   \* history: a call began while another was running

addVars == << add_pc, add_arg, add_found, add_overlap >>

\* PatternApplicator (patterns/application.rs) and the apply calls made on it.
VARIABLES
    apply_result,  \* the last apply call and what it did: << >> or << [..] >>
    applyCalls     \* the number of apply calls so far

applVars == << apply_result, applyCalls >>

\* ErrorHandlingProcessor (events/processor.rs), the failed events routed to
\* it and what it does with them.
VARIABLES
    eh_processor,   \* << >> or << [retry_attempts, dead_letter_handler] >>
    eh_inbox,       \* the events spawned for process() and not yet processed
    eh_log,         \* history: the process() calls, in order
    dead_letters,   \* the events the dead-letter handler was given, in order
    ehDelivered     \* history: the number of events routed so far

ehVars == << eh_processor, eh_inbox, eh_log, dead_letters, ehDelivered >>

\* PatternLibrary::evolve_patterns and apply_pattern (patterns/mod.rs) run
\* by two tasks, one step per acquisition of the patterns lock.
VARIABLES
    lib_now,          \* Utc::now(), in half days
    evolve_pc,        \* where evolve_patterns is: "idle" or "updating"
    evolve_snapshot,  \* evolve_patterns: the clone of the patterns map
    evolve_at,        \* evolve_patterns: Utc::now() when evolve_all ran
    evolve_results,   \* evolve_patterns: the results still to be stored
    apply_held,       \* apply_pattern: << >> or << the ApplicationResult >>
    applications,     \* history: per pattern, the applications it was added
                      \* with plus the apply_pattern calls completed since
    evoCalls          \* history: the calls made so far

evoVars == << lib_now, evolve_pc, evolve_snapshot, evolve_at, evolve_results,
              apply_held, applications, evoCalls >>

\* The two tokio RwLocks of the TaskManager that callers and queue consumers
\* contend for (a2a/src/manager.rs), with their queues of waiters.
VARIABLES
    guard_pc,       \* where each caller and each consumer is
    tasks_rwlock,   \* self.tasks: readers, writer and the waiters in order
    queue_rwlock    \* self.queue_service: the same

guardVars == << guard_pc, tasks_rwlock, queue_rwlock >>

\* update_solution_outcome called from several tasks at once
\* (knowledge/mod.rs): the SELECT and the UPDATE are separate statements.
VARIABLES
    outcome_pc,     \* where each caller is: "idle", "select" or "update"
    outcome_arg,    \* << >> or << solution_id, success >> of the running call
    outcome_read    \* << >> or << the Solution the SELECT returned >>

outcomeVars == << outcome_pc, outcome_arg, outcome_read >>

\* register and deregister called from several tasks at once
\* (registry/mod.rs), one step per lock taken.
VARIABLES
    register_pc,       \* where each caller is
    register_arg,      \* << >> or << the ServiceDefinition of the running call >>
    index_guard,       \* the callers holding the capabilities_index write guard
    register_overlap   \* history: two calls have run at the same time

stepVars == << register_pc, register_arg, index_guard, register_overlap >>

\* the components of ai-ops-core next to the router, the mesh and the graph,
\* the lock of the task manager and the concurrent callers of the graph.
opsVars == << regVars, libVars, matchVars, batchVars, consumerVars, lockVars,
             addVars,
             applVars,
             ehVars,
             evoVars,
             guardVars,
             outcomeVars,
             stepVars >>

\* the task manager, the event store, the router, the mesh and the graph.
coreVars == << tmVars, esVars, routerVars, meshVars, kgVars >>

\* everything but the registry.
notRegVars == << coreVars, libVars, matchVars, batchVars, consumerVars,
    lockVars, addVars,
    applVars,
    ehVars,
    evoVars,
    guardVars,
    outcomeVars,
    stepVars >>

\* everything but the pattern library.
notLibVars == << coreVars, regVars, matchVars, batchVars, consumerVars,
    lockVars, addVars,
    applVars,
    ehVars,
    evoVars,
    guardVars,
    outcomeVars,
    stepVars >>

\* everything but the pattern matcher.
notMatchVars == << coreVars, regVars, libVars, batchVars, consumerVars,
    lockVars, addVars,
    applVars,
    ehVars,
    evoVars,
    guardVars,
    outcomeVars,
    stepVars >>

\* everything but the batching processor.
notBatchVars == << coreVars, regVars, libVars, matchVars, consumerVars,
    lockVars, addVars,
    applVars,
    ehVars,
    evoVars,
    guardVars,
    outcomeVars,
    stepVars >>

\* everything but the consumer task.
notConsumerVars == << coreVars, regVars, libVars, matchVars, batchVars,
    lockVars, addVars,
    applVars,
    ehVars,
    evoVars,
    guardVars,
    outcomeVars,
    stepVars >>

\* what a call on the task manager's lock leaves alone: the queue consumers,
\* the histories of the task manager and every other component.
notLockVars == << pc, held, executed, returned, deliveries, failures,
                  statusUpdates, esVars, routerVars, meshVars, kgVars, regVars,
                  libVars, matchVars, batchVars, consumerVars, addVars,
    applVars,
    ehVars,
    evoVars,
    guardVars,
    outcomeVars,
    stepVars >>

\* what a step of add_problem leaves alone: everything but the graph's
\* table, cache, clock and call log.
notAddVars == << tmVars, esVars, routerVars, meshVars, edges, solutionsFound,
                 regVars, libVars, matchVars, batchVars, consumerVars, lockVars,
    applVars,
    ehVars,
    evoVars,
    guardVars,
    outcomeVars,
    stepVars >>

\* the event router, the event mesh and the knowledge graph of ai-ops-core.
aiVars == << routerVars, meshVars, kgVars, opsVars >>

vars == << agents, tasks, redis, pc, held, executed, returned, deliveries,
           failures, statusUpdates, events, indexes,
           capacity, storeLog, exported, queried, importResult, aiVars >>

(***************************************************************************)
(* A2ATask (task.rs).                                                      *)
(***************************************************************************)
\* A2ATask::new
NewTask(task_type, workflow_type, agentSeq) ==
    [ task_type |-> task_type,
      status    |-> "pending",
      artifacts |-> << >>,
      messages  |-> << >>,
      workflow  |-> [ workflow_type |-> workflow_type,
                      agents        |-> agentSeq,
                      current_agent |-> None,
                      current_step  |-> 0,
                      total_steps   |-> Len(agentSeq) ] ]

\* A2ATask::add_artifact
AddArtifact(task, artifact) ==
    [ task EXCEPT !.artifacts = Append(@, artifact) ]

\* A2ATask::add_message
AddMessage(task, message) ==
    [ task EXCEPT !.messages = Append(@, message) ]

\* A2ATask::update_status
UpdateStatus(task, status) ==
    [ task EXCEPT !.status = status ]

\* next_agent advancing the cursor without recording current_agent.
NextAgentStaleAgent(task) ==
    LET wf == task.workflow IN
    IF wf.current_step < wf.total_steps
      THEN [ agent |-> wf.agents[wf.current_step + 1],
             task  |-> [ task EXCEPT !.workflow.current_step = wf.current_step + 1 ] ]
      ELSE [ agent |-> None, task |-> task ]

\* A2ATask::next_agent: the returned Option and the task after the call.
NextAgent(task) ==
    LET wf == task.workflow IN
    IF wf.current_step < wf.total_steps
      THEN IF wf.current_step + 1 \in DOMAIN wf.agents
             THEN [ agent |-> wf.agents[wf.current_step + 1],
                    task  |-> [ task EXCEPT
                                  !.workflow.current_agent = wf.agents[wf.current_step + 1],
                                  !.workflow.current_step = wf.current_step + 1 ] ]
             ELSE [ agent |-> None, task |-> task ]
      ELSE [ agent |-> None, task |-> task ]

\* Message::info / Message::error, content abstracted to what it is about.
InfoMessage(about) == [ message_type |-> "info", about |-> about ]

ErrorMessage(about) == [ message_type |-> "error", about |-> about ]

(***************************************************************************)
(* QueueService (queue.rs) over Redis sorted sets.                         *)
(* A sorted set is kept as the sequence of its members in arrival order;   *)
(* the order Redis pops them in is computed by ZPopMinIndex.               *)
(***************************************************************************)
QueueTask(task_id, task_type, priority, attempts) ==
    [ task_id |-> task_id, type |-> task_type,
      priority |-> priority, attempts |-> attempts ]

\* let score = -task.priority, on i32: the negation of i32::MIN wraps to
\* i32::MIN when overflow checks are off.
Score(priority) ==
    IF priority = IntMin THEN IntMin ELSE 0 - priority

\* whether -task.priority overflows (a panic when overflow checks are on).
NegOverflows(priority) == priority = IntMin

\* ZADD: a member already present keeps its place (its score is rewritten).
ZAdd(zset, member) ==
    IF \E i \in DOMAIN zset : zset[i] = member THEN zset ELSE Append(zset, member)

\* Redis orders members of equal score by the bytes of the member, here the
\* JSON of the QueueTask, whose first field is task_id
\* ("task_<millis>_<uuid>", so in creation order), then type, priority and
\* attempts.
MemberLess(m1, m2) ==
    \/ m1.task_id < m2.task_id
    \/ m1.task_id = m2.task_id /\ m1.attempts < m2.attempts

\* index of the member BZPOPMIN returns: lowest score, then lowest member.
ZPopMinIndex(zset) ==
    CHOOSE i \in DOMAIN zset :
        \A j \in DOMAIN zset \ {i} :
            \/ Score(zset[i].priority) < Score(zset[j].priority)
            \/ /\ Score(zset[i].priority) = Score(zset[j].priority)
               /\ MemberLess(zset[i], zset[j])

\* a read of member i that leaves it in the sorted set.
ZRemoveKeepsMember(zset, i) == zset

\* the sorted set after BZPOPMIN removed member i.
ZRemove(zset, i) ==
    [ j \in 1..(Len(zset) - 1) |-> IF j < i THEN zset[j] ELSE zset[j + 1] ]

\* QueueService::enqueue
Enqueue(rd, queue_name, task) ==
    [ rd EXCEPT ![queue_name] = ZAdd(@, task) ]

\* requeue with the retry budget one too large (attempts > 4).
RequeueOneTooMany(queue_name, task) ==
    LET attempts == task.attempts + 1 IN
    IF attempts > MaxRetryAttempts + 1
      THEN [ queue |-> DeadName(queue_name),
             task  |-> [ task EXCEPT !.attempts = attempts ] ]
      ELSE [ queue |-> queue_name,
             task  |-> [ task EXCEPT
                           !.attempts = attempts,
                           !.priority = IF task.priority < IntMin + PriorityPenalty
                                          THEN IntMin
                                          ELSE task.priority - PriorityPenalty ] ]

\* QueueService::requeue: where the task goes and what is written there.
Requeue(queue_name, task) ==
    LET attempts == task.attempts + 1 IN
    IF attempts > MaxRetryAttempts
      THEN [ queue |-> DeadName(queue_name),
             task  |-> [ task EXCEPT !.attempts = attempts ] ]
      ELSE [ queue |-> queue_name,
             task  |-> [ task EXCEPT
                           !.attempts = attempts,
                           !.priority = IF task.priority < IntMin + PriorityPenalty
                                          THEN IntMin
                                          ELSE task.priority - PriorityPenalty ] ]

(***************************************************************************)
(* TaskManager (manager.rs).                                               *)
(***************************************************************************)
\* the queue queue_next_agent selects for an agent type.
QueueNameFor(agent) ==
    CASE agent = "import" -> IMPORT
      [] agent = "validation" -> VALIDATION
      [] agent = "enrichment" -> ENRICHMENT
      [] agent = "categorization" -> CATEGORIZATION
      [] agent = "embedding" -> EMBEDDING
      [] OTHER -> None

\* TaskManager::queue_next_agent: the task table and the queues after the
\* call and whether it returned Ok; enqueueOk is the outcome of the Redis
\* operation.
QueueNextAgent(ts, rd, task_id, enqueueOk) ==
    LET na == NextAgent(ts[task_id]) IN
    IF na.agent # None
      THEN LET advanced == [ ts EXCEPT ![task_id] = na.task ] IN
           IF QueueNameFor(na.agent) = None
             THEN [ tasks |-> advanced, redis |-> rd, ok |-> FALSE ]
             ELSE IF enqueueOk
               THEN [ tasks |-> advanced,
                      redis |-> Enqueue(rd, QueueNameFor(na.agent),
                                        QueueTask(task_id, na.agent,
                                                  InitialPriority, InitialAttempts)),
                      ok |-> TRUE ]
               ELSE [ tasks |-> advanced, redis |-> rd, ok |-> FALSE ]
      ELSE [ tasks |-> [ ts EXCEPT ![task_id] =
                           AddMessage(UpdateStatus(@, "completed"),
                                      InfoMessage("workflow")) ],
             redis |-> rd, ok |-> TRUE ]

\* what an agent's execute_task may return on success: Ok(artifacts) with
\* up to MaxArtifacts artifacts, possibly none.
ArtifactResults(agent) ==
    { [ i \in 1..k |-> [ agent |-> agent, n |-> i ] ] : k \in 0..MaxArtifacts }

\* the successful results that carry at least one artifact.
NonEmptyResults(agent) == ArtifactResults(agent) \ { << >> }

\* the loop stopping one artifact short.
AddArtifactsSkipsLast(task, artifacts) ==
    [ task EXCEPT !.artifacts =
        @ \o SubSeq(artifacts, 1, Len(artifacts) - 1) ]

RECURSIVE AddArtifacts(_, _)
\* the loop `for artifact in artifacts { task.add_artifact(artifact) }`.
AddArtifacts(task, artifacts) ==
    IF artifacts = << >> THEN task
    ELSE AddArtifacts(AddArtifact(task, Head(artifacts)), Tail(artifacts))

(***************************************************************************)
(* EventStore (events/store.rs).                                           *)
(***************************************************************************)
EventTypes == { "ServiceStarted", "TaskFailed" }

Sources == { "agent-a" }

EventIds == 1..MaxEventIds

\* the events callers may hand to store or import_json; an Option<EventId>
\* is << >> (None) or << id >> (Some).
Events ==
    [ id : EventIds, event_type : EventTypes, source : Sources,
      correlation_id : { << >>, << 1 >> }, causation_id : { << >>, << 1 >> } ]

EmptyIndexes ==
    [ by_type |-> << >>, by_source |-> << >>,
      by_correlation |-> << >>, by_causation |-> << >> ]

\* index.entry(key).or_insert_with(Vec::new).push(id)
IndexPush(index, key, id) ==
    IF key \in DOMAIN index
      THEN [ index EXCEPT ![key] = Append(@, id) ]
      ELSE [ k \in DOMAIN index \cup {key} |->
               IF k = key THEN << id >> ELSE index[k] ]

\* ids.retain(|id| *id != event_id)
Retain(ids, event_id) == SelectSeq(ids, LAMBDA id : id # event_id)

\* if let Some(ids) = index.get_mut(key) { ids.retain(..) }
IndexRemove(index, key, id) ==
    IF key \in DOMAIN index
      THEN [ index EXCEPT ![key] = Retain(@, id) ]
      ELSE index

\* the four index updates of EventStore::store.
AddToIndexes(ix, event) ==
    [ by_type   |-> IndexPush(ix.by_type, event.event_type, event.id),
      by_source |-> IndexPush(ix.by_source, event.source, event.id),
      by_correlation |->
          IF event.correlation_id # << >>
            THEN IndexPush(ix.by_correlation, event.correlation_id[1], event.id)
            ELSE ix.by_correlation,
      by_causation |->
          IF event.causation_id # << >>
            THEN IndexPush(ix.by_causation, event.causation_id[1], event.id)
            ELSE ix.by_causation ]

\* EventStore::remove_from_indexes
RemoveFromIndexes(ix, event) ==
    [ by_type   |-> IndexRemove(ix.by_type, event.event_type, event.id),
      by_source |-> IndexRemove(ix.by_source, event.source, event.id),
      by_correlation |->
          IF event.correlation_id # << >>
            THEN IndexRemove(ix.by_correlation, event.correlation_id[1], event.id)
            ELSE ix.by_correlation,
      by_causation |->
          IF event.causation_id # << >>
            THEN IndexRemove(ix.by_causation, event.causation_id[1], event.id)
            ELSE ix.by_causation ]

\* store evicting the event just pushed instead of the front of the ring.
StoreEventEvictsNewest(st, event, max_events) ==
    IF Len(st.events) + 1 > max_events
      THEN st
      ELSE [ events  |-> Append(st.events, event),
             indexes |-> AddToIndexes(st.indexes, event) ]

\* EventStore::store on a store of capacity max_events: ring and indexes after.
StoreEvent(st, event, max_events) ==
    LET pushed == Append(st.events, event)
        indexed == AddToIndexes(st.indexes, event)
    IN  IF Len(pushed) > max_events
          THEN [ events  |-> Tail(pushed),
                 indexes |-> RemoveFromIndexes(indexed, Head(pushed)) ]
          ELSE [ events |-> pushed, indexes |-> indexed ]

RECURSIVE StoreAll(_, _, _)
\* the loop of EventStore::import_json over the deserialised events.
StoreAll(st, imported, max_events) ==
    IF imported = << >> THEN st
    ELSE StoreAll(StoreEvent(st, Head(imported), max_events), Tail(imported),
                  max_events)

\* the event lists import_json is called with.
ImportLists ==
    UNION { [ 1..n -> Events ] : n \in 1..MaxImport }

(***************************************************************************)
(* The event mesh (events/mesh.rs): publish stores the event, appends it   *)
(* to a Redis stream and spawns the accepting processors; subscribe starts *)
(* a consumer task on a stream key.                                        *)
(***************************************************************************)
MaxPublish == 2

MaxProcessors == 2

\* EventStore::new() is with_capacity(10_000) (store.rs:26).
DefaultCapacity == 10000

\* the groups of the EventType enum (events/mod.rs): lifecycle, operational,
\* learning and collaboration events, then system, knowledge and custom ones.
ServiceTypes ==
    { "ServiceStarted", "ServiceStopped", "ServiceFailed", "ServiceRecovered",
      "ServiceHealthChanged" }

TaskTypes ==
    { "TaskCreated", "TaskAssigned", "TaskStarted", "TaskCompleted",
      "TaskFailed", "TaskCancelled" }

LearningTypes ==
    { "PatternDetected", "AnomalyDetected", "KnowledgeAcquired",
      "InsightGenerated", "PredictionMade" }

CollaborationTypes ==
    { "HelpRequested", "SolutionProposed", "CollaborationStarted",
      "CollaborationCompleted", "ConsensusReached" }

OtherTypes ==
    { "ConfigurationChanged", "PerformanceDegraded", "SecurityThreatDetected",
      "ResourceThresholdReached", "ProblemIdentified", "SolutionApplied",
      "OutcomeRecorded", "Custom" }

AllEventTypes ==
    ServiceTypes \cup TaskTypes \cup LearningTypes \cup CollaborationTypes
        \cup OtherTypes

\* the key subscribe hands to its consumer (mesh.rs:91); XGROUP CREATE and
\* XREADGROUP take it as the name of one stream.
SubscribeKey == "events:*"

StreamKeys ==
    { "events:service", "events:task", "events:learning",
      "events:collaboration", "events:system", SubscribeKey }

\* EventMesh::get_stream_key
GetStreamKey(event_type) ==
    CASE event_type \in { "ServiceStarted", "ServiceStopped", "ServiceFailed",
                          "ServiceRecovered" } -> "events:service"
      [] event_type \in { "TaskCreated", "TaskCompleted", "TaskFailed" }
                                                  -> "events:task"
      [] event_type \in { "PatternDetected", "AnomalyDetected",
                          "KnowledgeAcquired" } -> "events:learning"
      [] event_type \in { "HelpRequested", "SolutionProposed",
                          "CollaborationStarted" } -> "events:collaboration"
      [] OTHER -> "events:system"

SubNames == { "audit" }

\* the events published in the mesh specification; a Generic payload that
\* holds a string cannot be serialised (see PayloadToJson).
MeshEvents ==
    [ id : { 1 }, event_type : EventTypes, source : Sources,
      correlation_id : { << >> }, causation_id : { << >> },
      payload : { "Task", "GenericText" } ]

\* the events of every type, published in the stream key specification.
TypedEvents ==
    [ id : { 1 }, event_type : AllEventTypes, source : Sources,
      correlation_id : { << >> }, causation_id : { << >> },
      payload : { "Task" } ]

\* where publish may fail: get_connection, xadd, or nowhere.
PublishOutcomes == { "Ok", "ConnectErr", "XaddErr" }

\* the processors handed to add_processor: can_process by event type.
Processors == [ accepts : { EventTypes, { "TaskFailed" } } ]

\* EventProcessor::can_process
CanProcess(processor, event) == event.event_type \in processor.accepts

\* EventStore::get: the first event of the ring that carries the id.
GetEvent(ring, event_id) ==
    LET at == { i \in DOMAIN ring : ring[i].id = event_id }
    IN  IF at = {} THEN << >>
        ELSE << ring[CHOOSE i \in at : \A j \in at : i <= j] >>

\* route_to_processors spawning a task for the first accepting processor only.
RouteToFirstProcessor(procs, event, k) ==
    LET accepting == { p \in DOMAIN procs : CanProcess(procs[p], event) }
    IN  { [ processor |-> p, pub |-> k ] :
            p \in { q \in accepting : \A r \in accepting : q <= r } }

\* EventMesh::route_to_processors: the tasks spawned for publish call k.
RouteToProcessors(procs, event, k) ==
    { [ processor |-> p, pub |-> k ] :
        p \in { q \in DOMAIN procs : CanProcess(procs[q], event) } }

\* EventMesh::new: an empty store of the default capacity, no processor, no
\* subscription; the streams of the Redis server are empty.
MeshIdle ==
    /\ streams = [ s \in StreamKeys |-> << >> ]
    /\ processors = << >>
    /\ spawned = {}
    /\ processed = [ p \in 1..MaxProcessors, k \in 1..MaxPublish |-> 0 ]
    /\ subscriptions = [ n \in SubNames |-> << >> ]
    /\ consumers = [ n \in SubNames |-> [ pc |-> "none", last_delivered |-> 0 ] ]
    /\ handled = [ n \in SubNames, k \in 1..MaxPublish |-> 0 ]
    /\ published = << >>

MaxKgCalls == 3

\* the services a registry is asked to hold, and the calls made on it.
MaxServices == 2
MaxRegistryCalls == 5

\* the patterns a library is given, and the calls made on it.
MaxPatterns == 2
MaxLibraryCalls == 4

\* the patterns registered with a pattern matcher.
MaxMatcherPatterns == 2

\* the events handed to a batching processor.
MaxBatchEvents == 4

\* the entries written to the stream a consumer reads.
MaxStreamEntries == 3

\* read_stream reads up to 10 messages (events/mesh.rs:259).
ReadCount == 10

\* find_solutions reads the 10 nearest problems (knowledge/mod.rs:216).
NearestLimit == 10

\* the node ids there may be: a table holding one problem more than
\* find_solutions reads, and one node for every call.
CacheIds == 1..(NearestLimit + 1 + MaxKgCalls)

\* the calls on a knowledge graph that has just been opened.
KnowledgeCallsIdle ==
    /\ node_cache = [ id \in CacheIds |-> << >> ]
    /\ clock = 1
    /\ kgCalls = << >>
    /\ solutionsFound = << >>

\* KnowledgeGraph::new on an empty database.
KnowledgeIdle ==
    /\ nodes = << >>
    /\ edges = << >>
    /\ KnowledgeCallsIdle

\* EventRouter::new: no route, no default handler, nothing routed yet.
RouterIdle ==
    /\ routes = << >>
    /\ default_handler = << >>
    /\ added = 0
    /\ routed = << >>

\* the capabilities services are registered with and looked up by.
Capabilities == { "HealthCheck", "LogAnalysis" }

ServiceIds == 1..MaxServices

\* ServiceRegistry::new: three empty maps.
RegistryIdle ==
    /\ services = [ id \in ServiceIds |-> << >> ]
    /\ capabilities_index = [ c \in Capabilities |-> << >> ]
    /\ health_tracker = [ id \in ServiceIds |-> << >> ]
    /\ registryCalls = 0
    /\ servicesFound = << >>

\* the categories of the patterns added here.
PatternCategories == { "Performance", "Reliability" }

\* PatternLibrary::new: no pattern, nothing detected or applied yet.
LibraryIdle ==
    /\ patterns = << >>
    /\ category_index = [ c \in PatternCategories |-> << >> ]
    /\ detected = << >>
    /\ applied = << >>
    /\ libraryCalls = 0

\* PatternMatcher::new: no pattern registered, no event matched yet.
MatcherIdle ==
    /\ matcherPatterns = << >>
    /\ matchesFound = << >>

\* no BatchingProcessor has been made yet.
BatchingIdle ==
    /\ batch_size = 0
    /\ buffer = << >>
    /\ batches = << >>
    /\ handed = << >>
    /\ cloneDropped = << >>

\* no subscription yet: no consumer task, an empty stream.
ConsumerIdle ==
    /\ stream_entries = << >>
    /\ group_cursor = 0
    /\ acked = {}
    /\ reply = << >>
    /\ read_events = << >>
    /\ stream_handled = << >>
    /\ consumer_pc = "none"

\* the threads that call the task manager.
Threads == { "t1", "t2" }

\* a thread that is making no call.
NoCall ==
    [ op |-> "none", task_id |-> 0, agent_type |-> None, status |-> None,
      workflow_type |-> None, during |-> {} ]

\* nobody holds the tasks lock and no thread is inside a call.
LockIdle ==
    /\ tasks_lock = [ readers |-> {}, writer |-> {} ]
    /\ thread_pc = [ t \in Threads |-> "idle" ]
    /\ thread_call = [ t \in Threads |-> NoCall ]
    /\ snapshot = [ t \in Threads |-> << >> ]
    /\ execute_result = [ t \in Threads |-> << >> ]
    /\ pending = [ t \in Threads |-> << >> ]
    /\ overlapped = {}
    /\ lockCalls = 0

\* the tasks that call add_problem at the same time.
AddCallers == { "c1", "c2" }

\* no add_problem call is running.
AddIdle ==
    /\ add_pc = [ c \in AddCallers |-> "idle" ]
    /\ add_arg = [ c \in AddCallers |-> << >> ]
    /\ add_found = [ c \in AddCallers |-> << >> ]
    /\ add_overlap = FALSE

\* everything but the pattern applicator.
notApplVars == << coreVars, regVars, libVars, matchVars, batchVars,
    consumerVars, lockVars, addVars,
    ehVars,
    evoVars,
    guardVars,
    outcomeVars,
    stepVars >>

\* PatternApplicator::new and no apply call yet.
ApplicatorIdle ==
    /\ apply_result = << >>
    /\ applyCalls = 0

\* everything but the error handling processor.
notEhVars == << coreVars, regVars, libVars, matchVars, batchVars,
    consumerVars, lockVars, addVars, applVars,
    evoVars,
    guardVars,
    outcomeVars,
    stepVars >>

\* no ErrorHandlingProcessor has been made yet.
ErrorHandlingIdle ==
    /\ eh_processor = << >>
    /\ eh_inbox = << >>
    /\ eh_log = << >>
    /\ dead_letters = << >>
    /\ ehDelivered = 0

\* what the evolving library leaves alone: everything but the patterns map,
\* the category index and its own state.
notEvoVars == << coreVars, regVars, matchVars, batchVars, consumerVars,
    lockVars, addVars, applVars, ehVars, detected, applied, libraryCalls,
    guardVars,
    outcomeVars,
    stepVars >>

\* no evolve_patterns and no apply_pattern is running, no time has passed.
EvolutionIdle ==
    /\ lib_now = 0
    /\ evolve_pc = "idle"
    /\ evolve_snapshot = << >>
    /\ evolve_at = 0
    /\ evolve_results = {}
    /\ apply_held = << >>
    /\ applications = [ p \in 1..MaxPatterns |-> 0 ]
    /\ evoCalls = 0

\* what the lock waiters leave alone.
notGuardVars == << coreVars, regVars, libVars, matchVars, batchVars,
    consumerVars, lockVars, addVars, applVars, ehVars, evoVars,
    outcomeVars,
    stepVars >>

\* the callers of the task manager, and the consumers start_processor spawns.
GuardCallers == { "caller" }

GuardConsumers == { "import", "validation" }

GuardThreads == GuardCallers \cup GuardConsumers

\* an RwLock nobody holds or waits for.
FreeRwLock == [ readers |-> {}, writer |-> {}, waiters |-> << >> ]

\* nobody is in a call and both locks are free.
GuardsIdle ==
    /\ guard_pc = [ t \in GuardThreads |-> "idle" ]
    /\ tasks_rwlock = FreeRwLock
    /\ queue_rwlock = FreeRwLock

\* what a step of update_solution_outcome leaves alone: everything but the
\* graph's table, cache and call log and its own state.
notOutcomeVars == << tmVars, esVars, routerVars, meshVars, edges, clock,
    solutionsFound, regVars, libVars, matchVars, batchVars, consumerVars,
    lockVars, addVars, applVars, ehVars, evoVars, guardVars,
    stepVars >>

\* the tasks that call update_solution_outcome.
OutcomeCallers == { "o1", "o2" }

\* no update_solution_outcome call is running.
OutcomesIdle ==
    /\ outcome_pc = [ c \in OutcomeCallers |-> "idle" ]
    /\ outcome_arg = [ c \in OutcomeCallers |-> << >> ]
    /\ outcome_read = [ c \in OutcomeCallers |-> << >> ]

\* what a step of register or deregister leaves alone: everything but the
\* three maps of the registry, the call counter and its own state.
notStepVars == << coreVars, libVars, matchVars, batchVars, consumerVars,
    lockVars, addVars, applVars, ehVars, evoVars, guardVars, outcomeVars,
    servicesFound >>

\* the tasks that call register and deregister.
RegistryCallers == { "r1", "r2" }

\* no register and no deregister is running.
StepsIdle ==
    /\ register_pc = [ c \in RegistryCallers |-> "idle" ]
    /\ register_arg = [ c \in RegistryCallers |-> << >> ]
    /\ index_guard = {}
    /\ register_overlap = FALSE

OpsIdle ==
    /\ RegistryIdle /\ LibraryIdle /\ MatcherIdle /\ BatchingIdle /\ ConsumerIdle
    /\ LockIdle /\ AddIdle /\ ApplicatorIdle /\ ErrorHandlingIdle /\ EvolutionIdle /\ GuardsIdle /\ OutcomesIdle /\ StepsIdle

AiIdle == RouterIdle /\ MeshIdle /\ KnowledgeIdle /\ OpsIdle

(***************************************************************************)
(* Specifications.                                                         *)
(***************************************************************************)
\* no store call, export or query has been made yet.
RingIdle ==
    /\ storeLog = << >>
    /\ exported = << >>
    /\ queried = << >>
    /\ importResult = << >>

\* whether a Redis operation may fail now: at most MaxFailures fail in a run.
MayFail(ok) == ok \/ failures < MaxFailures

\* The state when processing starts: TaskManager::new and initialize have
\* run and all but at most MaxMissingAgents agent types are registered; the
\* event store is EventStore::with_capacity(MaxEvents).
Init ==
    /\ agents \in { S \in SUBSET AgentTypes :
                      Cardinality(AgentTypes \ S) <= MaxMissingAgents }
    /\ tasks = << >>
    /\ redis = [ k \in RedisKeys |-> << >> ]
    /\ pc = [ q \in Queues |-> "idle" ]
    /\ held = [ q \in Queues |-> << >> ]
    /\ executed = << >>
    /\ returned = << >>
    /\ deliveries = << >>
    /\ failures = 0
    /\ statusUpdates = 0
    /\ events = << >>
    /\ indexes = EmptyIndexes
    /\ capacity = MaxEvents
    /\ RingIdle
    /\ AiIdle

\* TaskManager::register_agent
RegisterAgent(agent) ==
    /\ agent \notin agents
    /\ agents' = agents \cup {agent}
    /\ UNCHANGED << tasks, redis, pc, held, executed, returned, deliveries,
                    failures, statusUpdates, esVars, aiVars >>

\* TaskManager::create_task for a registered workflow type.
CreateTask(workflow_type, enqueueOk) ==
    /\ Len(tasks) < MaxTasks
    /\ MayFail(enqueueOk)
    /\ failures' = IF enqueueOk THEN failures ELSE failures + 1
    /\ LET task_id == Len(tasks) + 1
           task == NewTask(workflow_type, WorkflowName[workflow_type],
                           Workflows[workflow_type])
           r == QueueNextAgent(Append(tasks, task), redis, task_id, enqueueOk)
       IN  /\ tasks' = r.tasks
           /\ redis' = r.redis
    /\ executed' = Append(executed, << >>)
    /\ returned' = Append(returned, << >>)
    /\ deliveries' = Append(deliveries, [ a \in AgentTypes |-> 0 ])
    /\ UNCHANGED << agents, pc, held, statusUpdates, esVars, aiVars >>

\* TaskManager::update_task_status called from outside on an existing task.
UpdateTaskStatus(task_id, status) ==
    /\ task_id \in DOMAIN tasks
    /\ tasks[task_id].status # status
    /\ statusUpdates < MaxStatusUpdates
    /\ statusUpdates' = statusUpdates + 1
    /\ tasks' = [ tasks EXCEPT ![task_id] = UpdateStatus(@, status) ]
    /\ UNCHANGED << agents, redis, pc, held, executed, returned, deliveries,
                    failures, esVars, aiVars >>

\* process_queue: the dequeue that returns Some(task).
ProcessQueueDequeue(q) ==
    /\ pc[q] = "idle"
    /\ redis[q] # << >>
    /\ LET i == ZPopMinIndex(redis[q]) IN
           /\ held' = [ held EXCEPT ![q] = << redis[q][i] >> ]
           /\ redis' = [ redis EXCEPT ![q] = ZRemove(@, i) ]
    /\ pc' = [ pc EXCEPT ![q] = "dequeued" ]
    /\ UNCHANGED << agents, tasks, executed, returned, deliveries,
                    failures, statusUpdates, esVars, aiVars >>

\* process_task up to the call of execute_task: task snapshot, agent lookup,
\* status running.
ProcessTaskStart(q) ==
    /\ pc[q] = "dequeued"
    /\ LET task_id == held[q][1].task_id
           agent_type == AgentOf(q)
       IN  /\ deliveries' = [ deliveries EXCEPT ![task_id][agent_type] = @ + 1 ]
           /\ IF task_id \notin DOMAIN tasks \/ agent_type \notin agents
                THEN /\ pc' = [ pc EXCEPT ![q] = "requeue" ]
                     /\ UNCHANGED << tasks, executed >>
                ELSE /\ tasks' = [ tasks EXCEPT ![task_id] = UpdateStatus(@, "running") ]
                     /\ executed' = [ executed EXCEPT ![task_id] = Append(@, agent_type) ]
                     /\ pc' = [ pc EXCEPT ![q] = "executing" ]
    /\ UNCHANGED << agents, redis, held, returned, failures, statusUpdates, esVars, aiVars >>

\* process_task after execute_task returned Ok(artifacts).
ProcessTaskOk(q, artifacts, enqueueOk) ==
    /\ pc[q] = "executing"
    /\ MayFail(enqueueOk)
    /\ LET task_id == held[q][1].task_id
           agent_type == AgentOf(q)
           stored == [ tasks EXCEPT ![task_id] =
                         AddMessage(AddArtifacts(@, artifacts), InfoMessage(agent_type)) ]
           r == QueueNextAgent(stored, redis, task_id, enqueueOk)
       IN  /\ tasks' = r.tasks
           /\ redis' = r.redis
           /\ returned' = [ returned EXCEPT ![task_id] = @ \o artifacts ]
           /\ failures' = IF r.ok THEN failures ELSE failures + 1
           /\ IF r.ok
                THEN /\ pc' = [ pc EXCEPT ![q] = "idle" ]
                     /\ held' = [ held EXCEPT ![q] = << >> ]
                ELSE /\ pc' = [ pc EXCEPT ![q] = "requeue" ]
                     /\ UNCHANGED held
    /\ UNCHANGED << agents, executed, deliveries, statusUpdates, esVars, aiVars >>

\* process_task after execute_task returned Err.
ProcessTaskErr(q) ==
    /\ pc[q] = "executing"
    /\ LET task_id == held[q][1].task_id
           agent_type == AgentOf(q)
       IN  tasks' = [ tasks EXCEPT ![task_id] =
                        UpdateStatus(AddMessage(@, ErrorMessage(agent_type)), "failed") ]
    /\ pc' = [ pc EXCEPT ![q] = "idle" ]
    /\ held' = [ held EXCEPT ![q] = << >> ]
    /\ UNCHANGED << agents, redis, executed, returned, deliveries,
                    failures, statusUpdates, esVars, aiVars >>

\* process_queue after process_task returned Err: requeue, whose Redis
\* operation succeeds or fails (the consumer loop logs the error).
ProcessQueueRequeue(q, enqueueOk) ==
    /\ pc[q] = "requeue"
    /\ MayFail(enqueueOk)
    /\ failures' = IF enqueueOk THEN failures ELSE failures + 1
    /\ LET r == Requeue(q, held[q][1]) IN
           redis' = IF enqueueOk THEN Enqueue(redis, r.queue, r.task) ELSE redis
    /\ pc' = [ pc EXCEPT ![q] = "idle" ]
    /\ held' = [ held EXCEPT ![q] = << >> ]
    /\ UNCHANGED << agents, tasks, executed, returned, deliveries,
                    statusUpdates, esVars, aiVars >>

\* The task manager with its five queue consumers; Redis operations may fail.
\* Every successful agent returns at least one artifact.
Next ==
    \/ \E a \in AgentTypes : RegisterAgent(a)
    \/ \E w \in WorkflowTypes, ok \in BOOLEAN : CreateTask(w, ok)
    \/ \E q \in Queues : ProcessQueueDequeue(q)
    \/ \E q \in Queues : ProcessTaskStart(q)
    \/ \E q \in Queues, ok \in BOOLEAN :
          \E arts \in NonEmptyResults(AgentOf(q)) : ProcessTaskOk(q, arts, ok)
    \/ \E q \in Queues : ProcessTaskErr(q)
    \/ \E q \in Queues, ok \in BOOLEAN : ProcessQueueRequeue(q, ok)

Spec == Init /\ [][Next]_vars

\* The task manager with callers of update_task_status; Redis is reliable.
NextStatus ==
    \/ \E a \in AgentTypes : RegisterAgent(a)
    \/ \E w \in WorkflowTypes : CreateTask(w, TRUE)
    \/ \E t \in 1..MaxTasks, s \in TaskStatus : UpdateTaskStatus(t, s)
    \/ \E q \in Queues : ProcessQueueDequeue(q)
    \/ \E q \in Queues : ProcessTaskStart(q)
    \/ \E q \in Queues :
          \E arts \in NonEmptyResults(AgentOf(q)) : ProcessTaskOk(q, arts, TRUE)
    \/ \E q \in Queues : ProcessTaskErr(q)
    \/ \E q \in Queues : ProcessQueueRequeue(q, TRUE)

SpecStatus == Init /\ [][NextStatus]_vars

\* The state after construction: TaskManager::new, QueueService::connect
\* on empty queues, EventStore::with_capacity(MaxEvents).
InitIdle ==
    /\ agents = {}
    /\ tasks = << >>
    /\ redis = [ k \in RedisKeys |-> << >> ]
    /\ pc = [ q \in Queues |-> "idle" ]
    /\ held = [ q \in Queues |-> << >> ]
    /\ executed = << >>
    /\ returned = << >>
    /\ deliveries = << >>
    /\ failures = 0
    /\ statusUpdates = 0
    /\ events = << >>
    /\ indexes = EmptyIndexes
    /\ capacity = MaxEvents
    /\ RingIdle
    /\ AiIdle

\* Scenario S1: every agent registered and succeeding, Redis reliable, the
\* consumers of start_processor running.
InitHappy ==
    /\ agents = AgentTypes
    /\ tasks = << >>
    /\ redis = [ k \in RedisKeys |-> << >> ]
    /\ pc = [ q \in Queues |-> "idle" ]
    /\ held = [ q \in Queues |-> << >> ]
    /\ executed = << >>
    /\ returned = << >>
    /\ deliveries = << >>
    /\ failures = 0
    /\ statusUpdates = 0
    /\ events = << >>
    /\ indexes = EmptyIndexes
    /\ capacity = MaxEvents
    /\ RingIdle
    /\ AiIdle

ConsumerStep(q) ==
    \/ ProcessQueueDequeue(q)
    \/ ProcessTaskStart(q)
    \/ \E arts \in ArtifactResults(AgentOf(q)) : ProcessTaskOk(q, arts, TRUE)

NextHappy ==
    \/ \E w \in WorkflowTypes : CreateTask(w, TRUE)
    \/ \E q \in Queues : ConsumerStep(q)

\* each consumer is a spawned loop that never stops (manager.rs:298-304).
SpecHappy ==
    /\ InitHappy
    /\ [][NextHappy]_vars
    /\ \A q \in Queues : WF_vars(ConsumerStep(q))

(***************************************************************************)
(* A client of QueueService: it enqueues tasks, dequeues them and requeues *)
(* what it dequeued, as process_queue does.                                *)
(***************************************************************************)
\* priorities the client enqueues with.
QueuePriorities ==
    { InitialPriority, IntMin + PriorityPenalty + 5, IntMin + 5 }

\* the task ids present in a sorted set.
TaskIdsIn(zset) == { zset[i].task_id : i \in DOMAIN zset }

\* QueueService::enqueue of a task that is in no queue yet.
QueueEnqueue(q, task_id, priority, attempts) ==
    /\ \A k \in RedisKeys : task_id \notin TaskIdsIn(redis[k])
    /\ \A k \in Queues : \A i \in DOMAIN held[k] : held[k][i].task_id # task_id
    /\ redis' = Enqueue(redis, q, QueueTask(task_id, AgentOf(q), priority, attempts))
    /\ UNCHANGED << agents, tasks, pc, held, executed, returned, deliveries,
                    failures, statusUpdates, esVars, aiVars >>

\* QueueService::dequeue returning Some(task).
QueueDequeue(q) ==
    /\ held[q] = << >>
    /\ redis[q] # << >>
    /\ LET i == ZPopMinIndex(redis[q]) IN
           /\ held' = [ held EXCEPT ![q] = << redis[q][i] >> ]
           /\ redis' = [ redis EXCEPT ![q] = ZRemove(@, i) ]
    /\ UNCHANGED << agents, tasks, pc, executed, returned, deliveries,
                    failures, statusUpdates, esVars, aiVars >>

\* QueueService::requeue of the dequeued task. When -task.priority overflows
\* in enqueue, a build with overflow checks panics before ZADD and a build
\* without them wraps.
QueueRequeue(q, overflowChecks) ==
    /\ held[q] # << >>
    /\ LET r == Requeue(q, held[q][1]) IN
           redis' = IF NegOverflows(r.task.priority) /\ overflowChecks
                      THEN redis
                      ELSE Enqueue(redis, r.queue, r.task)
    /\ held' = [ held EXCEPT ![q] = << >> ]
    /\ UNCHANGED << agents, tasks, pc, executed, returned, deliveries,
                    failures, statusUpdates, esVars, aiVars >>

NextQueue ==
    \/ \E t \in 1..MaxQueueTasks, p \in QueuePriorities :
          QueueEnqueue(IMPORT, t, p, InitialAttempts)
    \/ QueueDequeue(IMPORT)
    \/ \E oc \in BOOLEAN : QueueRequeue(IMPORT, oc)

SpecQueue == InitIdle /\ [][NextQueue]_vars

(***************************************************************************)
(* An event store of capacity MaxEvents and its callers.                   *)
(***************************************************************************)
\* EventStore::store
Store(event) ==
    /\ LET st == StoreEvent([ events |-> events, indexes |-> indexes ],
                            event, capacity)
       IN  /\ events' = st.events
           /\ indexes' = st.indexes
    /\ UNCHANGED << tmVars, aiVars, ringVars >>

\* EventStore::import_json of a JSON list of events.
ImportJson(imported) ==
    /\ LET st == StoreAll([ events |-> events, indexes |-> indexes ],
                          imported, capacity)
       IN  /\ events' = st.events
           /\ indexes' = st.indexes
    /\ UNCHANGED << tmVars, aiVars, ringVars >>

\* EventStore::clear
Clear ==
    /\ events # << >>
    /\ events' = << >>
    /\ indexes' = EmptyIndexes
    /\ UNCHANGED << tmVars, aiVars, ringVars >>

NextEvents ==
    \/ \E e \in Events : Store(e)
    \/ \E l \in ImportLists : ImportJson(l)
    \/ Clear

SpecEvents == InitIdle /\ [][NextEvents]_vars

(***************************************************************************)
(* One event store and its callers, with the store calls recorded: the     *)
(* store is created with any capacity, filled, queried, exported, and the  *)
(* export is imported back (events/store.rs).                              *)
(***************************************************************************)
\* the payloads of the events stored here: a Task payload, an Anomaly
\* payload one of whose f64 metrics is NaN, and Generic(Value::String).
Payloads == { "Task", "AnomalyNaN", "GenericText" }

\* the events the callers hand to store.
RingEvents ==
    [ id : EventIds, event_type : { "TaskFailed" }, source : Sources,
      correlation_id : { << >> }, causation_id : { << >> }, payload : Payloads ]

\* serde_json of an EventPayload (#[serde(tag = "type")]): Ok(json) is
\* << json >> and Err is << >>. A NaN f64 is written as null; an internally
\* tagged newtype variant that holds a string cannot be serialised.
PayloadToJson(payload) ==
    CASE payload = "Task" -> << "{type:Task}" >>
      [] payload = "AnomalyNaN" -> << "{type:Anomaly,metrics:null}" >>
      [] OTHER -> << >>

\* serde_json::from_str of a payload: null is not an f64.
PayloadFromJson(json) ==
    CASE json = "{type:Task}" -> << "Task" >>
      [] OTHER -> << >>

\* EventStore::export_json: serde_json::to_string_pretty of the ring.
ExportJson(ring) ==
    IF \A i \in DOMAIN ring : PayloadToJson(ring[i].payload) # << >>
      THEN << [ i \in DOMAIN ring |->
                  [ ring[i] EXCEPT !.payload = PayloadToJson(@)[1] ] ] >>
      ELSE << >>

\* serde_json::from_str::<Vec<Event>>: all events or an error.
ParseEvents(json) ==
    IF \A i \in DOMAIN json : PayloadFromJson(json[i].payload) # << >>
      THEN << [ i \in DOMAIN json |->
                  [ json[i] EXCEPT !.payload = PayloadFromJson(@)[1] ] ] >>
      ELSE << >>

\* iter().rev()
Reverse(s) == [ i \in 1..Len(s) |-> s[Len(s) + 1 - i] ]

\* iter().take(n)
Take(s, n) == SubSeq(s, 1, IF n < Len(s) THEN n ELSE Len(s))

\* the filters query is called with: None, or Some(EventFilter::by_types(..)).
Filters == { << >>, << { "TaskFailed" } >>, << { "ServiceStarted" } >> }

\* EventFilter::matches of a by_types filter.
FilterMatches(types, event) == event.event_type \in types

\* query answering oldest first whatever the filter.
QueryOldestFirst(ring, filter, limit) ==
    IF filter # << >>
      THEN Take(SelectSeq(ring, LAMBDA e : FilterMatches(filter[1], e)), limit)
      ELSE Take(ring, limit)

\* EventStore::query
QueryEvents(ring, filter, limit) ==
    IF filter # << >>
      THEN Take(SelectSeq(ring, LAMBDA e : FilterMatches(filter[1], e)), limit)
      ELSE Take(Reverse(ring), limit)

\* EventStore::with_capacity(max_events): a new, empty store.
RingWithCapacity(max_events) ==
    /\ events' = << >>
    /\ indexes' = EmptyIndexes
    /\ capacity' = max_events
    /\ storeLog' = << >>
    /\ UNCHANGED << tmVars, aiVars, exported, queried, importResult >>

\* EventStore::store
RingStore(event) ==
    /\ Len(storeLog) < MaxStores
    /\ LET st == StoreEvent([ events |-> events, indexes |-> indexes ],
                            event, capacity)
       IN  /\ events' = st.events
           /\ indexes' = st.indexes
    /\ storeLog' = Append(storeLog, event)
    /\ UNCHANGED << tmVars, aiVars, capacity, exported, queried, importResult >>

\* EventStore::clear
RingClear ==
    /\ events # << >>
    /\ events' = << >>
    /\ indexes' = EmptyIndexes
    /\ storeLog' = << >>
    /\ UNCHANGED << tmVars, aiVars, capacity, exported, queried, importResult >>

\* EventStore::query
RingQuery(filter, limit) ==
    /\ queried' = << [ filter |-> filter, limit |-> limit,
                       result |-> QueryEvents(events, filter, limit) ] >>
    /\ UNCHANGED << tmVars, aiVars, events, indexes, capacity, storeLog, exported, importResult >>

\* EventStore::export_json; the exported ring is kept beside the result.
RingExport ==
    /\ events # << >>
    /\ exported' = << [ ring |-> events, json |-> ExportJson(events) ] >>
    /\ UNCHANGED << tmVars, aiVars, events, indexes, capacity, storeLog, queried, importResult >>

\* EventStore::import_json of the last export: nothing is stored when the
\* JSON does not parse.
RingImport ==
    /\ exported # << >>
    /\ exported[1].json # << >>
    /\ Len(storeLog) + Len(exported[1].json[1]) <= MaxStores
    /\ LET parsed == ParseEvents(exported[1].json[1]) IN
           IF parsed = << >>
             THEN /\ importResult' = << [ ok |-> FALSE, count |-> 0 ] >>
                  /\ UNCHANGED << events, indexes, storeLog >>
             ELSE LET st == StoreAll([ events |-> events, indexes |-> indexes ],
                                     parsed[1], capacity)
                  IN  /\ events' = st.events
                      /\ indexes' = st.indexes
                      /\ storeLog' = storeLog \o parsed[1]
                      /\ importResult' = << [ ok |-> TRUE, count |-> Len(parsed[1]) ] >>
    /\ UNCHANGED << tmVars, aiVars, capacity, exported, queried >>

\* a store that is created, filled, cleared and queried.
NextRing ==
    \/ \E c \in 0..MaxEvents : RingWithCapacity(c)
    \/ \E e \in RingEvents : RingStore(e)
    \/ RingClear
    \/ \E f \in Filters, l \in 0..MaxLimit : RingQuery(f, l)

SpecRing == InitIdle /\ [][NextRing]_vars

\* a store that is filled and exported, and a store created afterwards that
\* imports the export.
NextExport ==
    \/ \E c \in 0..MaxEvents : RingWithCapacity(c)
    \/ \E e \in RingEvents : RingStore(e)
    \/ RingExport
    \/ RingImport

SpecExport == InitIdle /\ [][NextExport]_vars

(***************************************************************************)
(* The event router (events/router.rs): routes kept in priority order, a   *)
(* default handler, and route(event).                                      *)
(***************************************************************************)
MaxRoutes == 3

RoutePriorities == { 50, 100 }

RouteNames == { "audit", "alerts" }

\* RoutingRule: an Option is << >> or << x >>; the rules here carry no
\* pattern and no source restriction.
Rules ==
    [ name : RouteNames, event_types : { << >>, << { "TaskFailed" } >> },
      sources : { << >> }, priority : RoutePriorities ]

\* the events handed to route.
RouterEvents ==
    [ id : { 1 }, event_type : EventTypes, source : Sources,
      correlation_id : { << >> }, causation_id : { << >> } ]

\* EventRouter::matches_rule (the pattern loop runs over no pattern).
MatchesRule(rule, event) ==
    /\ rule.event_types # << >> => event.event_type \in rule.event_types[1]
    /\ rule.sources # << >> => event.source \in rule.sources[1]

\* sort placing a route ahead of the routes of its own priority.
InsertBeforeEqual(sorted, route) ==
    LET k == Cardinality({ i \in DOMAIN sorted :
                             sorted[i].rule.priority > route.rule.priority })
    IN  SubSeq(sorted, 1, k) \o << route >> \o SubSeq(sorted, k + 1, Len(sorted))

\* one step of the stable sort_by of add_route: the route goes behind every
\* route whose priority is not lower than its own.
InsertByPriority(sorted, route) ==
    LET k == Cardinality({ i \in DOMAIN sorted :
                             sorted[i].rule.priority >= route.rule.priority })
    IN  SubSeq(sorted, 1, k) \o << route >> \o SubSeq(sorted, k + 1, Len(sorted))

RECURSIVE SortByPriority(_)
\* routes.sort_by(|a, b| b.rule.priority.cmp(&a.rule.priority)): stable,
\* higher priority first.
SortByPriority(s) ==
    IF s = << >> THEN << >>
    ELSE InsertByPriority(SortByPriority(SubSeq(s, 1, Len(s) - 1)), s[Len(s)])

\* EventRouter::add_route; handler is the identity of the boxed handler (the
\* ordinal of the call) and fails tells whether its handle returns Err.
AddRoute(rule, fails) ==
    /\ added < MaxRoutes
    /\ added' = added + 1
    /\ routes' = SortByPriority(Append(routes,
                     [ rule |-> rule, handler |-> added + 1, fails |-> fails ]))
    /\ UNCHANGED << tmVars, opsVars, esVars, meshVars, kgVars, default_handler, routed >>

\* EventRouter::set_default_handler
SetDefaultHandler(fails) ==
    /\ default_handler' = << [ fails |-> fails ] >>
    /\ UNCHANGED << tmVars, opsVars, esVars, meshVars, kgVars, routes, added, routed >>

\* EventRouter::remove_route
RemoveRoute(name) ==
    /\ routes' = SelectSeq(routes, LAMBDA r : r.rule.name # name)
    /\ UNCHANGED << tmVars, opsVars, esVars, meshVars, kgVars, default_handler, added, routed >>

\* EventRouter::clear_routes
ClearRoutes ==
    /\ routes' = << >>
    /\ UNCHANGED << tmVars, opsVars, esVars, meshVars, kgVars, default_handler, added, routed >>

RECURSIVE RouteLoopKeepsGoing(_, _, _)
\* a loop that goes on to the next route after a handler failed.
RouteLoopKeepsGoing(rs, event, st) ==
    IF rs = << >> THEN st
    ELSE IF MatchesRule(Head(rs).rule, event)
      THEN RouteLoopKeepsGoing(Tail(rs), event,
               [ st EXCEPT !.invoked = Append(@, Head(rs).handler),
                           !.handled = TRUE,
                           !.result = IF Head(rs).fails THEN "Err" ELSE @ ])
      ELSE RouteLoopKeepsGoing(Tail(rs), event, st)

RECURSIVE RouteLoop(_, _, _)
\* the loop of EventRouter::route over the routes: handle(event).await? leaves
\* the function at the first error.
RouteLoop(rs, event, st) ==
    IF rs = << >> THEN st
    ELSE IF MatchesRule(Head(rs).rule, event)
      THEN IF Head(rs).fails
             THEN [ st EXCEPT !.invoked = Append(@, Head(rs).handler),
                              !.result = "Err" ]
             ELSE RouteLoop(Tail(rs), event,
                      [ st EXCEPT !.invoked = Append(@, Head(rs).handler),
                                  !.handled = TRUE ])
      ELSE RouteLoop(Tail(rs), event, st)

\* EventRouter::route: the handlers invoked, in order, and the result.
RouteEvent(rs, default, event) ==
    LET st == RouteLoop(rs, event,
                  [ event |-> event, invoked |-> << >>, handled |-> FALSE,
                    default_invoked |-> FALSE, result |-> "Ok" ])
    IN  IF st.result = "Err" THEN st
        ELSE IF ~st.handled /\ default # << >>
          THEN [ st EXCEPT !.default_invoked = TRUE,
                           !.result = IF default[1].fails THEN "Err" ELSE "Ok" ]
          ELSE st

\* a call of EventRouter::route
Route(event) ==
    /\ routed' = << RouteEvent(routes, default_handler, event) >>
    /\ UNCHANGED << tmVars, opsVars, esVars, meshVars, kgVars, routes, default_handler, added >>

NextRouter ==
    \/ \E rule \in Rules, fails \in BOOLEAN : AddRoute(rule, fails)
    \/ \E fails \in BOOLEAN : SetDefaultHandler(fails)
    \/ \E name \in RouteNames : RemoveRoute(name)
    \/ ClearRoutes
    \/ \E event \in RouterEvents : Route(event)

SpecRouter == InitIdle /\ [][NextRouter]_vars

(***************************************************************************)
(* The calls on the event mesh and its spawned tasks (events/mesh.rs).     *)
(***************************************************************************)
\* EventMesh::publish, call number k: get_connection, store, to_string, xadd,
\* route_to_processors; each ? returns at once with what was done so far.
Publish(event, outcome) ==
    /\ Len(published) < MaxPublish
    /\ LET k == Len(published) + 1
           st == StoreEvent([ events |-> events, indexes |-> indexes ],
                            event, capacity)
           json == PayloadToJson(event.payload)
           key == GetStreamKey(event.event_type)
           ok == outcome = "Ok" /\ json # << >>
       IN  /\ IF outcome = "ConnectErr"
                THEN UNCHANGED << events, indexes >>
                ELSE /\ events' = st.events
                     /\ indexes' = st.indexes
           /\ IF ok
                THEN /\ streams' = [ streams EXCEPT ![key] =
                                       Append(@, [ pub |-> k,
                                                   event_type |-> event.event_type,
                                                   data |-> [ event EXCEPT !.payload = json[1] ] ]) ]
                     /\ spawned' = spawned \cup RouteToProcessors(processors, event, k)
                ELSE UNCHANGED << streams, spawned >>
           /\ published' = Append(published,
                  [ event |-> event,
                    result |-> IF ok THEN "Ok" ELSE "Err",
                    processors |-> Len(processors),
                    subscribed |-> { n \in SubNames : subscriptions[n] # << >> } ])
    /\ UNCHANGED << tmVars, opsVars, ringVars, routerVars, kgVars, processors, processed,
                    subscriptions, consumers, handled >>

\* EventMesh::add_processor
AddProcessor(processor) ==
    /\ Len(processors) < MaxProcessors
    /\ processors' = Append(processors, processor)
    /\ UNCHANGED << tmVars, opsVars, esVars, routerVars, kgVars, streams, spawned, processed,
                    subscriptions, consumers, handled, published >>

\* a task spawned by route_to_processors: process on the processor's clone.
ProcessorTask(task) ==
    /\ task \in spawned
    /\ spawned' = spawned \ { task }
    /\ processed' = [ processed EXCEPT ![task.processor, task.pub] = @ + 1 ]
    /\ UNCHANGED << tmVars, opsVars, esVars, routerVars, kgVars, streams, processors,
                    subscriptions, consumers, handled, published >>

\* EventMesh::subscribe: start_consumer spawns the consumer task of the
\* stream key "events:*", then the subscription is inserted.
Subscribe(name, filter) ==
    /\ subscriptions[name] = << >>
    /\ consumers' = [ consumers EXCEPT ![name] =
                        [ pc |-> "spawned", last_delivered |-> 0 ] ]
    /\ subscriptions' = [ subscriptions EXCEPT ![name] =
                            << [ stream_key |-> SubscribeKey, filter |-> filter ] >> ]
    /\ UNCHANGED << tmVars, opsVars, esVars, routerVars, kgVars, streams, processors, spawned,
                    processed, handled, published >>

\* the head of the consumer task: a connection, then XGROUP CREATE MKSTREAM
\* stream_key ai-ops-{name} $, the group starting behind the last entry.
ConsumerStart(name, connected) ==
    /\ consumers[name].pc = "spawned"
    /\ consumers' = [ consumers EXCEPT ![name] =
                        IF connected
                          THEN [ pc |-> "reading",
                                 last_delivered |->
                                     Len(streams[subscriptions[name][1].stream_key]) ]
                          ELSE [ pc |-> "stopped", last_delivered |-> 0 ] ]
    /\ UNCHANGED << tmVars, opsVars, esVars, routerVars, kgVars, streams, processors, spawned,
                    processed, subscriptions, handled, published >>

\* the entries XREADGROUP ">" delivers to the group: those behind the last
\* delivered one of the stream named by the key.
ReadStream(stream_key, last_delivered) ==
    SubSeq(streams[stream_key], last_delivered + 1, Len(streams[stream_key]))

RECURSIVE HandleAll(_, _, _)
\* read_stream parsing the entries and handle_stream_event on each event
\* parsed: the handler runs when the filter matches.
HandleAll(entries, filter, counts) ==
    IF entries = << >> THEN counts
    ELSE LET entry == Head(entries)
             parsed == PayloadFromJson(entry.data.payload)
             event == [ entry.data EXCEPT !.payload = parsed[1] ]
         IN  HandleAll(Tail(entries), filter,
                 IF parsed # << >>
                      /\ (filter # << >> => FilterMatches(filter[1], event))
                   THEN [ counts EXCEPT ![entry.pub] = @ + 1 ]
                   ELSE counts)

\* one turn of the consumer loop: read_stream on the stream key, then
\* handle_stream_event for every event read.
ConsumerLoop(name) ==
    /\ consumers[name].pc = "reading"
    /\ LET sub == subscriptions[name][1]
           entries == ReadStream(sub.stream_key, consumers[name].last_delivered)
           counts == HandleAll(entries, sub.filter,
                               [ k \in 1..MaxPublish |-> handled[name, k] ])
       IN  /\ consumers' = [ consumers EXCEPT ![name].last_delivered =
                               @ + Len(entries) ]
           /\ handled' = [ n \in SubNames, k \in 1..MaxPublish |->
                             IF n = name THEN counts[k] ELSE handled[n, k] ]
    /\ UNCHANGED << tmVars, opsVars, esVars, routerVars, kgVars, streams, processors, spawned,
                    processed, subscriptions, published >>

\* EventMesh::new followed by any calls.
InitMesh ==
    /\ agents = {}
    /\ tasks = << >>
    /\ redis = [ k \in RedisKeys |-> << >> ]
    /\ pc = [ q \in Queues |-> "idle" ]
    /\ held = [ q \in Queues |-> << >> ]
    /\ executed = << >>
    /\ returned = << >>
    /\ deliveries = << >>
    /\ failures = 0
    /\ statusUpdates = 0
    /\ events = << >>
    /\ indexes = EmptyIndexes
    /\ capacity = DefaultCapacity
    /\ RingIdle
    /\ AiIdle

NextMesh ==
    \/ \E event \in MeshEvents, outcome \in PublishOutcomes : Publish(event, outcome)
    \/ \E processor \in Processors : AddProcessor(processor)
    \/ \E task \in spawned : ProcessorTask(task)
    \/ \E name \in SubNames, filter \in Filters : Subscribe(name, filter)
    \/ \E name \in SubNames, connected \in BOOLEAN : ConsumerStart(name, connected)
    \/ \E name \in SubNames : ConsumerLoop(name)

\* the spawned processor tasks and the consumer loops run on the tokio
\* runtime: each of them is scheduled as long as it can run.
SpecMesh ==
    /\ InitMesh
    /\ [][NextMesh]_vars
    /\ \A p \in 1..MaxProcessors, k \in 1..MaxPublish :
          WF_vars(ProcessorTask([ processor |-> p, pub |-> k ]))
    /\ \A name \in SubNames : WF_vars(ConsumerLoop(name))
    /\ \A name \in SubNames : WF_vars(\E connected \in BOOLEAN : ConsumerStart(name, connected))

\* publish called with events of every type.
NextStreams ==
    \E event \in TypedEvents, outcome \in PublishOutcomes : Publish(event, outcome)

SpecStreams == InitMesh /\ [][NextStreams]_vars

(***************************************************************************)
(* The knowledge graph (knowledge/mod.rs): the table knowledge_nodes, the  *)
(* node cache, add_problem, add_solution and update_solution_outcome,      *)
(* called one after the other.                                             *)
(***************************************************************************)
\* the fingerprint field callers give their problems: any text, or the very
\* text generate_fingerprint computes.
CallerFingerprints == { "test-problem-001", "hash(performance|OOM)" }

\* the problems handed to add_problem.
Problems ==
    [ fingerprint : CallerFingerprints, category : { "performance" },
      description : { "High memory usage", "Out of memory" },
      error_patterns : { << "OOM" >>, << "timeout" >> },
      occurrence_count : { 1 } ]

RECURSIVE Gcd(_, _)
\* the f64 quotient of two counters is kept as a reduced fraction
\* << numerator, denominator >>; << 0, 0 >> stands for NaN and infinity.
Gcd(a, b) == IF b = 0 THEN a ELSE Gcd(b, a % b)

\* the quotient left as it was stored.
QuotientStale(n, d) == << 0, 1 >>

\* success_count as f64 / attempt_count as f64
Quotient(n, d) ==
    IF d = 0 THEN << 0, 0 >> ELSE << n \div Gcd(n, d), d \div Gcd(n, d) >>

\* the solutions handed to add_solution; the counters are u32.
Solutions ==
    [ description : { "Increase memory limit" }, success_rate : { << 0, 1 >> },
      attempt_count : 0..1, success_count : 0..1 ]

NodeIds == 1..MaxKgCalls

\* KnowledgeGraph::generate_fingerprint: a hash of category and
\* error_patterns, written as text; distinct inputs give distinct texts.
GenerateFingerprint(problem) ==
    "hash(" \o problem.category \o "|" \o problem.error_patterns[1] \o ")"

\* KnowledgeGraph::find_similar_problem: the rows of type problem whose data
\* has the fingerprint; LIMIT 1 returns any one of them.
FindSimilarProblem(fingerprint) ==
    { i \in DOMAIN nodes : /\ nodes[i].node_type = "problem"
                           /\ nodes[i].data.fingerprint = fingerprint }

\* the record a call leaves in the log.
Call(op, arg, result) == [ op |-> op, arg |-> arg, result |-> result, at |-> clock ]

\* KnowledgeGraph::add_problem; the id of a new node is fresh, Utc::now() is
\* the clock, and generate_embedding may fail.
AddProblem(problem, embedded) ==
    /\ Len(kgCalls) < MaxKgCalls
    /\ clock' = clock + 1
    /\ LET found == FindSimilarProblem(GenerateFingerprint(problem))
           id == Len(nodes) + 1
       IN  IF found # {}
             THEN \E i \in found :
                    /\ nodes' = [ nodes EXCEPT
                                    ![i].data.occurrence_count = @ + 1,
                                    ![i].data.last_seen = clock ]
                    /\ kgCalls' = Append(kgCalls,
                           Call("add_problem", problem, << nodes[i].id >>))
                    /\ UNCHANGED node_cache
             ELSE IF embedded
               THEN /\ nodes' = Append(nodes,
                           [ id |-> id, node_type |-> "problem",
                             data |-> [ fingerprint |-> problem.fingerprint,
                                        category |-> problem.category,
                                        description |-> problem.description,
                                        error_patterns |-> problem.error_patterns,
                                        occurrence_count |-> problem.occurrence_count,
                                        last_seen |-> clock ] ])
                    /\ node_cache' = [ node_cache EXCEPT ![id] = << problem >> ]
                    /\ kgCalls' = Append(kgCalls,
                           Call("add_problem", problem, << id >>))
               ELSE /\ kgCalls' = Append(kgCalls,
                           Call("add_problem", problem, << >>))
                    /\ UNCHANGED << nodes, node_cache >>
    /\ UNCHANGED << tmVars, opsVars, esVars, routerVars, meshVars, edges, solutionsFound >>

\* the row add_edge inserts; weights are in thousandths.
Edge(from, to, relationship, weight) ==
    [ from_node |-> from, to_node |-> to, relationship |-> relationship,
      weight |-> weight ]

\* KnowledgeGraph::add_solution: generate_embedding, INSERT, add_edge
\* (solution -> solves -> problem, weight 1.0), cache; outcome tells which
\* of them fails, if any.
AddSolution(solution, problem_id, outcome) ==
    /\ Len(kgCalls) < MaxKgCalls
    /\ clock' = clock + 1
    /\ LET id == Len(nodes) + 1
       IN  /\ IF outcome = "EmbeddingErr"
                THEN UNCHANGED nodes
                ELSE nodes' = Append(nodes,
                         [ id |-> id, node_type |-> "solution", data |-> solution ])
           /\ IF outcome = "Ok"
                THEN /\ edges' = Append(edges, Edge(id, problem_id, "solves", 1000))
                     /\ node_cache' = [ node_cache EXCEPT ![id] = << solution >> ]
                ELSE UNCHANGED << edges, node_cache >>
           /\ kgCalls' = Append(kgCalls,
                  Call("add_solution", solution,
                       IF outcome = "Ok" THEN << id >> ELSE << >>))
    /\ UNCHANGED << tmVars, opsVars, esVars, routerVars, meshVars, solutionsFound >>

\* KnowledgeGraph::update_solution_outcome: SELECT data, the new counters and
\* rate, UPDATE, cache. A missing row or a row that is not a solution is Err.
UpdateSolutionOutcome(solution_id, success) ==
    /\ Len(kgCalls) < MaxKgCalls
    /\ clock' = clock + 1
    /\ LET at == { i \in DOMAIN nodes : nodes[i].id = solution_id }
       IN  IF at # {} /\ \A i \in at : nodes[i].node_type = "solution"
             THEN LET i == CHOOSE i \in at : TRUE
                      old == nodes[i].data
                      attempts == old.attempt_count + 1
                      successes == old.success_count + (IF success THEN 1 ELSE 0)
                      solution == [ old EXCEPT
                                      !.attempt_count = attempts,
                                      !.success_count = successes,
                                      !.success_rate = Quotient(successes, attempts) ]
                  IN  /\ nodes' = [ nodes EXCEPT ![i].data = solution ]
                      /\ node_cache' = [ node_cache EXCEPT ![solution_id] = << solution >> ]
                      /\ kgCalls' = Append(kgCalls,
                             Call("update_solution_outcome",
                                  << solution_id, success >>, << solution_id >>))
             ELSE /\ kgCalls' = Append(kgCalls,
                         Call("update_solution_outcome",
                              << solution_id, success >>, << >>))
                  /\ UNCHANGED << nodes, node_cache >>
    /\ UNCHANGED << tmVars, opsVars, esVars, routerVars, meshVars, edges, solutionsFound >>

NextKnowledge ==
    \/ \E problem \in Problems, embedded \in BOOLEAN : AddProblem(problem, embedded)
    \/ \E solution \in Solutions, problem_id \in NodeIds,
             outcome \in { "Ok", "EmbeddingErr", "EdgeErr" } :
          AddSolution(solution, problem_id, outcome)
    \/ \E solution_id \in NodeIds, success \in BOOLEAN :
          UpdateSolutionOutcome(solution_id, success)

SpecKnowledge == InitIdle /\ [][NextKnowledge]_vars

(***************************************************************************)
(* find_solutions on a knowledge graph that already holds problems         *)
(* (knowledge/mod.rs): the nearest problems, their solves edges, the       *)
(* candidates sorted by confidence.                                        *)
(***************************************************************************)
\* the texts find_solutions is asked about.
Queries == { "memory issues", "disk" }

\* 1 - (embedding <=> $1): the cosine similarity of the embeddings of two
\* texts, in thousandths.
Similarity(query, description) ==
    CASE query = "memory issues" /\ description = "High memory usage" -> 900
      [] query = "memory issues" /\ description = "Out of memory" -> 500
      [] query = "memory issues" /\ description = "Disk full" -> 100
      [] query = "disk" /\ description = "High memory usage" -> 100
      [] query = "disk" /\ description = "Out of memory" -> 200
      [] query = "disk" /\ description = "Disk full" -> 900
      [] OTHER -> 0

\* a problem row as add_problem inserted it before the calls looked at here.
StoredProblem(id, description) ==
    [ id |-> id, node_type |-> "problem",
      data |-> [ fingerprint |-> "test-problem-001", category |-> "performance",
                 description |-> description, error_patterns |-> << "OOM" >>,
                 occurrence_count |-> 1, last_seen |-> 0 ] ]

\* the tables the calls start from: empty, the two problems of scenario S8,
\* and one problem more than find_solutions reads.
StoredTables ==
    { << >>,
      << StoredProblem(1, "High memory usage"), StoredProblem(2, "Out of memory") >>,
      [ i \in 1..(NearestLimit + 1) |->
          StoredProblem(i, IF i = 1 THEN "Disk full"
                           ELSE IF i <= 6 THEN "High memory usage"
                           ELSE "Out of memory") ] }

RECURSIVE OrderByKey(_, _)
\* ORDER BY: the members of S in descending order of key.
OrderByKey(S, key) ==
    IF S = {} THEN << >>
    ELSE LET x == CHOOSE x \in S : \A y \in S : key[x] >= key[y]
         IN  << x >> \o OrderByKey(S \ { x }, key)

\* rows of equal sort key come in an order of the server's choosing: in
\* insertion order (tie = "asc") or against it (tie = "desc").
TieKey(tie, i, n) == IF tie = "asc" THEN n - i ELSE i

\* the positions of all problem rows, nearest first, without a LIMIT.
AllProblems(query, tie) ==
    LET problems == { i \in DOMAIN nodes : nodes[i].node_type = "problem" }
        n == Len(nodes) + 1
    IN  OrderByKey(problems,
            [ i \in problems |->
                Similarity(query, nodes[i].data.description) * n + TieKey(tie, i, n) ])

\* the same query without its LIMIT.
NearestProblemsUnlimited(query, tie) == AllProblems(query, tie)

\* SELECT .. WHERE node_type = 'problem' ORDER BY embedding <=> $1 LIMIT 10
NearestProblems(query, tie) == Take(AllProblems(query, tie), NearestLimit)

\* SELECT .. FROM knowledge_nodes n JOIN knowledge_edges e ON e.from_node =
\* n.id WHERE e.to_node = $1 AND e.relationship = 'solves' ORDER BY e.weight
\* DESC: the positions of the edges, heaviest first.
SolvesEdges(problem_id, tie) ==
    LET joined == { k \in DOMAIN edges :
                      /\ edges[k].to_node = problem_id
                      /\ edges[k].relationship = "solves"
                      /\ \E i \in DOMAIN nodes : nodes[i].id = edges[k].from_node }
        n == Len(edges) + 1
    IN  OrderByKey(joined,
            [ k \in joined |-> edges[k].weight * n + TieKey(tie, k, n) ])

\* the node with the id.
NodeOf(id) == nodes[CHOOSE i \in DOMAIN nodes : nodes[i].id = id]

RECURSIVE CandidatesOf(_, _, _)
\* the loop over the similar problems and their solutions: one candidate for
\* each row, confidence = similarity * weight.
CandidatesOf(problems, query, tie) ==
    IF problems = << >> THEN << >>
    ELSE LET problem == nodes[Head(problems)]
             rows == SolvesEdges(problem.id, tie)
         IN  [ r \in DOMAIN rows |->
                 [ solution_id |-> edges[rows[r]].from_node,
                   solution |-> NodeOf(edges[rows[r]].from_node).data,
                   is_solution |-> NodeOf(edges[rows[r]].from_node).node_type = "solution",
                   confidence |-> Similarity(query, problem.data.description)
                                      * edges[rows[r]].weight,
                   similar_problem_id |-> problem.id ] ]
             \o CandidatesOf(Tail(problems), query, tie)

\* one step of the stable sort_by of find_solutions, higher confidence first.
InsertByConfidence(sorted, candidate) ==
    LET k == Cardinality({ i \in DOMAIN sorted :
                             sorted[i].confidence >= candidate.confidence })
    IN  SubSeq(sorted, 1, k) \o << candidate >> \o SubSeq(sorted, k + 1, Len(sorted))

RECURSIVE SortByConfidence(_)
\* solution_candidates.sort_by(|a, b| b.confidence.partial_cmp(&a.confidence))
SortByConfidence(s) ==
    IF s = << >> THEN << >>
    ELSE InsertByConfidence(SortByConfidence(SubSeq(s, 1, Len(s) - 1)), s[Len(s)])

\* KnowledgeGraph::find_solutions. generate_embedding may fail, and
\* from_value fails on a row that is not a solution.
FindSolutions(query, tie, embedded) ==
    /\ Len(kgCalls) < MaxKgCalls
    /\ LET candidates == CandidatesOf(NearestProblems(query, tie), query, tie)
           ok == embedded /\ \A c \in DOMAIN candidates : candidates[c].is_solution
       IN  /\ solutionsFound' =
                 << [ query |-> query, ok |-> ok,
                      candidates |-> IF ok THEN SortByConfidence(candidates)
                                     ELSE << >> ] >>
           /\ kgCalls' = Append(kgCalls,
                  Call("find_solutions", << query >>,
                       IF ok THEN << Len(candidates) >> ELSE << >>))
    /\ UNCHANGED << tmVars, opsVars, esVars, routerVars, meshVars, nodes, node_cache,
                    clock, edges >>

\* the relationships of the edges added here, as add_edge writes them.
Relationships == { "solves", "causes" }

EdgeWeights == { 500, 1000 }

\* KnowledgeGraph::add_edge
AddEdge(from, to, relationship, weight, inserted) ==
    /\ Len(kgCalls) < MaxKgCalls
    /\ IF inserted
         THEN edges' = Append(edges, Edge(from, to, relationship, weight))
         ELSE UNCHANGED edges
    /\ kgCalls' = Append(kgCalls,
           Call("add_edge", << from, to >>,
                IF inserted THEN << Len(edges) + 1 >> ELSE << >>))
    /\ UNCHANGED << tmVars, opsVars, esVars, routerVars, meshVars, nodes, node_cache,
                    clock, solutionsFound >>

\* the idle state of everything but the knowledge graph.
OthersIdle ==
    /\ agents = {}
    /\ tasks = << >>
    /\ redis = [ k \in RedisKeys |-> << >> ]
    /\ pc = [ q \in Queues |-> "idle" ]
    /\ held = [ q \in Queues |-> << >> ]
    /\ executed = << >>
    /\ returned = << >>
    /\ deliveries = << >>
    /\ failures = 0
    /\ statusUpdates = 0
    /\ events = << >>
    /\ indexes = EmptyIndexes
    /\ capacity = MaxEvents
    /\ RingIdle
    /\ RouterIdle
    /\ MeshIdle
    /\ OpsIdle

\* a knowledge graph opened on a database that holds problems already.
InitSolutions ==
    /\ OthersIdle
    /\ nodes \in StoredTables
    /\ edges = << >>
    /\ KnowledgeCallsIdle

\* the problems solutions are attached to here: the problems of S8 and the
\* last row of the largest table.
SolvedProblems == { 1, 2, NearestLimit + 1 }

NextSolutions ==
    \/ \E solution \in { s \in Solutions : s.attempt_count = 0 /\ s.success_count = 0 },
          problem_id \in SolvedProblems,
          outcome \in { "Ok", "EmbeddingErr", "EdgeErr" } :
          AddSolution(solution, problem_id, outcome)
    \/ \E from \in { Len(nodes), 1 }, to \in SolvedProblems,
          relationship \in Relationships, weight \in EdgeWeights,
          inserted \in BOOLEAN :
          AddEdge(from, to, relationship, weight, inserted)
    \/ \E query \in Queries, tie \in { "asc", "desc" }, embedded \in BOOLEAN :
          FindSolutions(query, tie, embedded)

SpecSolutions == InitSolutions /\ [][NextSolutions]_vars

(***************************************************************************)
(* ServiceRegistry (registry/mod.rs).                                      *)
(***************************************************************************)
\* ServiceDefinition.capabilities: the Vec a service is registered with.
CapabilityLists ==
    { << "HealthCheck" >>, << "HealthCheck", "LogAnalysis" >> }

\* the fields of a ServiceDefinition that the registry reads.
ServiceDefinitions == [ id : ServiceIds, capabilities : CapabilityLists ]

HealthStatuses == { "Healthy", "Degraded", "Unhealthy" }

\* HealthUpdate: the status and the metrics, of which only "load" is read:
\* << >> without that key, << load >> with it.
HealthUpdates == [ status : HealthStatuses, metrics : { << >>, << 1 >>, << 2 >> } ]

\* for capability in &definition.capabilities { entry(..).or_insert_with(..).push(id) }
RECURSIVE PushAll(_, _, _)
PushAll(index, capabilities, service_id) ==
    IF capabilities = << >> THEN index
    ELSE PushAll([ index EXCEPT ![Head(capabilities)] = Append(@, service_id) ],
                 Tail(capabilities), service_id)

\* services.retain(|&id| id != service_id)
RetainOthers(ids, service_id) == SelectSeq(ids, LAMBDA id : id # service_id)

\* ServiceRegistry::register
Register(definition) ==
    /\ registryCalls < MaxRegistryCalls
    /\ registryCalls' = registryCalls + 1
    /\ services' = [ services EXCEPT ![definition.id] = << definition >> ]
    /\ capabilities_index' =
           PushAll(capabilities_index, definition.capabilities, definition.id)
    /\ health_tracker' = [ health_tracker EXCEPT ![definition.id] =
                             << [ status |-> "Healthy", metrics |-> << >> ] >> ]
    /\ UNCHANGED << notRegVars, servicesFound >>

\* ServiceRegistry::deregister: NotFound for an id that is not registered.
Deregister(service_id) ==
    /\ registryCalls < MaxRegistryCalls
    /\ registryCalls' = registryCalls + 1
    /\ services[service_id] # << >>
    /\ services' = [ services EXCEPT ![service_id] = << >> ]
    /\ capabilities_index' =
           [ c \in Capabilities |->
               IF \E k \in DOMAIN services[service_id][1].capabilities :
                      services[service_id][1].capabilities[k] = c
                 THEN RetainOthers(capabilities_index[c], service_id)
                 ELSE capabilities_index[c] ]
    /\ health_tracker' = [ health_tracker EXCEPT ![service_id] = << >> ]
    /\ UNCHANGED << notRegVars, servicesFound >>

\* ServiceRegistry::update_health: the status is replaced, the metrics merged.
UpdateHealth(service_id, health_update) ==
    /\ registryCalls < MaxRegistryCalls
    /\ registryCalls' = registryCalls + 1
    /\ health_tracker[service_id] # << >>
    /\ health_tracker' = [ health_tracker EXCEPT ![service_id] =
           << [ status |-> health_update.status,
                metrics |-> IF health_update.metrics = << >>
                              THEN health_tracker[service_id][1].metrics
                              ELSE health_update.metrics ] >> ]
    /\ UNCHANGED << notRegVars, services, capabilities_index, servicesFound >>

\* health.metrics.get("load").unwrap_or(&0.0)
Load(info) == IF info.health.metrics = << >> THEN 0 ELSE info.health.metrics[1]

\* the comparator of find_by_capability says Less for (a, b).
HealthLess(a, b) ==
    IF a.health.status = "Healthy" /\ b.health.status = "Healthy"
      THEN Load(a) < Load(b)
      ELSE a.health.status = "Healthy"

\* one step of the stable results.sort_by(..).
InsertByHealth(sorted, info) ==
    LET k == Cardinality({ i \in DOMAIN sorted : ~HealthLess(info, sorted[i]) })
    IN  SubSeq(sorted, 1, k) \o << info >> \o SubSeq(sorted, k + 1, Len(sorted))

RECURSIVE SortByHealth(_)
SortByHealth(s) ==
    IF s = << >> THEN << >>
    ELSE InsertByHealth(SortByHealth(SubSeq(s, 1, Len(s) - 1)), s[Len(s)])

\* the loop of find_by_capability: a ServiceInfo for each listed id that has
\* a definition and a health entry.
ServiceInfos(service_ids) ==
    LET present == SelectSeq(service_ids,
                       LAMBDA id : services[id] # << >> /\ health_tracker[id] # << >>)
    IN  [ k \in DOMAIN present |->
            [ definition |-> services[present[k]][1],
              health |-> health_tracker[present[k]][1] ] ]

\* the Vec find_by_capability returns.
FindResults(capability) == SortByHealth(ServiceInfos(capabilities_index[capability]))

\* ServiceRegistry::find_by_capability
FindByCapability(capability) ==
    /\ registryCalls < MaxRegistryCalls
    /\ registryCalls' = registryCalls + 1
    /\ servicesFound' = << [ capability |-> capability,
                             results |-> FindResults(capability) ] >>
    /\ UNCHANGED << notRegVars, services, capabilities_index, health_tracker >>

NextRegistry ==
    \/ \E definition \in ServiceDefinitions : Register(definition)
    \/ \E service_id \in ServiceIds : Deregister(service_id)
    \/ \E service_id \in ServiceIds, health_update \in HealthUpdates :
          UpdateHealth(service_id, health_update)
    \/ \E capability \in Capabilities : FindByCapability(capability)

SpecRegistry == InitIdle /\ [][NextRegistry]_vars

(***************************************************************************)
(* PatternLibrary, PatternDetector and PatternApplicator (patterns/).      *)
(***************************************************************************)
\* an f64 that is the quotient of two counts: << numerator, denominator >>.
FracGreater(x, y) == x[1] * y[2] > y[1] * x[2]

\* f64::max
FracMax(x, y) == IF FracGreater(y, x) THEN y ELSE x

\* a * b
FracTimes(x, y) == << x[1] * y[1], x[2] * y[2] >>

\* the metrics of a DetectionContext and of Metric indicators.
MetricNames == { "response_time", "error_rate", "cpu" }

\* Indicator: the type (Metric(name) or one of the other variants), the
\* threshold (<< n >> for a JSON number, << >> for any other JSON value)
\* and the operator.
Indicator(kind, name, operator, threshold) ==
    [ indicator_type |-> [ kind |-> kind, name |-> name ],
      operator |-> operator, threshold |-> threshold ]

SlowResponse == Indicator("Metric", "response_time", "GreaterThan", << 3000 >>)

\* PatternContext.problem_indicators of the patterns added here.
IndicatorLists ==
    { << SlowResponse >>,
      << SlowResponse,
         Indicator("Metric", "error_rate", "GreaterThan", << 5 >>),
         Indicator("Metric", "cpu", "NotEqual", << 50 >>),
         Indicator("Metric", "error_rate", "Equal", << >>),
         Indicator("ErrorRate", "", "GreaterThan", << 5 >>) >> }

\* SolutionStep: the action type and the failure strategy.
StepLists ==
    { << >>, << [ action_type |-> "Execute", on_failure |-> "Abort" ] >> }

\* PatternMetrics::default(), with the confidence_score the caller sets.
MetricsWith(confidence_score) ==
    [ application_count |-> 0, success_count |-> 0, failure_count |-> 0,
      average_resolution_time |-> 0, confidence_score |-> confidence_score ]

\* the patterns add_pattern is called with: confidence_score 0.5 (the
\* default) or 1.0.
PatternTemplates ==
    { [ id |-> 0,
        category |-> IF Len(indicators) = 1 THEN "Performance" ELSE "Reliability",
        context |-> [ problem_indicators |-> indicators ],
        solution |-> [ steps |-> steps ],
        metrics |-> MetricsWith(score) ] :
        indicators \in IndicatorLists, steps \in StepLists,
        score \in { << 1, 2 >>, << 1, 1 >> } }

\* DetectionContext.metrics: name -> << >> or << value >>.
DetectionContexts ==
    { [ metrics |->
          [ n \in MetricNames |->
              CASE n = "response_time" -> response_time
                [] n = "error_rate" -> error_rate
                [] OTHER -> cpu ] ] :
        response_time \in { << >>, << 2000 >>, << 4000 >> },
        error_rate \in { << >>, << 10 >> },
        cpu \in { << >>, << 80 >> } }

\* PatternLibrary::add_pattern
AddPattern(pattern) ==
    /\ libraryCalls < MaxLibraryCalls
    /\ Len(patterns) < MaxPatterns
    /\ libraryCalls' = libraryCalls + 1
    /\ patterns' = Append(patterns, [ pattern EXCEPT !.id = Len(patterns) + 1 ])
    /\ category_index' = [ category_index EXCEPT
                             ![pattern.category] = Append(@, Len(patterns) + 1) ]
    /\ UNCHANGED << notLibVars, detected, applied >>

\* MetricPatternMatcher::check_threshold
CheckThreshold(value, indicator) ==
    IF indicator.threshold = << >> THEN FALSE
    ELSE CASE indicator.operator = "GreaterThan" -> value > indicator.threshold[1]
           [] indicator.operator = "LessThan" -> value < indicator.threshold[1]
           [] indicator.operator = "Equal" -> value = indicator.threshold[1]
           [] OTHER -> FALSE

\* MetricPatternMatcher::matches: None (<< >>) without a metric indicator
\* whose metric the context has, otherwise matched / present.
MetricMatches(pattern, context) ==
    LET indicators == pattern.context.problem_indicators
        present == { k \in DOMAIN indicators :
                       /\ indicators[k].indicator_type.kind = "Metric"
                       /\ context.metrics[indicators[k].indicator_type.name] # << >> }
        matched == { k \in present :
                       CheckThreshold(
                           context.metrics[indicators[k].indicator_type.name][1],
                           indicators[k]) }
    IN  IF present = {} THEN << >>
        ELSE << [ confidence |-> << Cardinality(matched), Cardinality(present) >>,
                  matched_indicators |->
                      LET hits == SelectSeq([ k \in DOMAIN indicators |-> k ],
                                            LAMBDA k : k \in matched)
                      IN  [ h \in DOMAIN hits |->
                              indicators[hits[h]].indicator_type.name ] ] >>

\* LogPatternMatcher::matches and ErrorPatternMatcher::matches: None.
LogMatches(pattern, context) == << >>

ErrorMatches(pattern, context) == << >>

\* PatternDetector.matchers, applied in order to one pattern.
MatcherResults(pattern, context) ==
    << MetricMatches(pattern, context), LogMatches(pattern, context),
       ErrorMatches(pattern, context) >>

RECURSIVE MaxConfidence(_, _)
\* confidence = confidence.max(match_result.confidence) over the matchers.
MaxConfidence(confidence, results) ==
    IF results = << >> THEN confidence
    ELSE MaxConfidence(IF Head(results) = << >> THEN confidence
                       ELSE FracMax(confidence, Head(results)[1].confidence),
                       Tail(results))

RECURSIVE AllMatched(_)
\* matched_indicators.extend(..) over the matchers.
AllMatched(results) ==
    IF results = << >> THEN << >>
    ELSE (IF Head(results) = << >> THEN << >>
          ELSE Head(results)[1].matched_indicators) \o AllMatched(Tail(results))

\* PatternDetector::calculate_priority
CalculatePriority(pattern, confidence) ==
    LET base_score == FracTimes(confidence, pattern.metrics.confidence_score)
    IN  IF FracGreater(base_score, << 8, 10 >>) THEN "High"
        ELSE IF FracGreater(base_score, << 5, 10 >>) THEN "Medium"
        ELSE "Low"

\* confidence >= 0.5
AtLeastHalf(confidence) == ~FracGreater(<< 5, 10 >>, confidence)

\* confidence > 0.5
AboveHalf(confidence) == FracGreater(confidence, << 5, 10 >>)

RECURSIVE DetectLoop(_, _)
\* the loop of detect over the patterns, in the order the map yields them.
DetectLoop(order, context) ==
    IF order = << >> THEN << >>
    ELSE LET pattern == patterns[Head(order)]
             results == MatcherResults(pattern, context)
             confidence == MaxConfidence(<< 0, 1 >>, results)
         IN  (IF AboveHalf(confidence)
                THEN << [ pattern_id |-> pattern.id,
                          confidence |-> confidence,
                          matched_indicators |-> AllMatched(results),
                          suggested_priority |->
                              CalculatePriority(pattern, confidence) ] >>
                ELSE << >>)
             \o DetectLoop(Tail(order), context)

\* one step of the stable results.sort_by(..), higher confidence first.
InsertDetected(sorted, result) ==
    LET k == Cardinality({ i \in DOMAIN sorted :
                             ~FracGreater(result.confidence, sorted[i].confidence) })
    IN  SubSeq(sorted, 1, k) \o << result >> \o SubSeq(sorted, k + 1, Len(sorted))

RECURSIVE SortDetected(_)
SortDetected(s) ==
    IF s = << >> THEN << >>
    ELSE InsertDetected(SortDetected(SubSeq(s, 1, Len(s) - 1)), s[Len(s)])

\* PatternDetector::detect
Detect(order, context) == SortDetected(DetectLoop(order, context))

\* the orders in which a HashMap of the patterns can be iterated.
IterationOrders ==
    { order \in [ 1..Len(patterns) -> 1..Len(patterns) ] :
        \A i, j \in 1..Len(patterns) : i # j => order[i] # order[j] }

\* PatternLibrary::detect_patterns
DetectPatterns(context, order) ==
    /\ libraryCalls < MaxLibraryCalls
    /\ libraryCalls' = libraryCalls + 1
    /\ detected' = << [ call |-> libraryCalls + 1, context |-> context,
                        results |-> Detect(order, context) ] >>
    /\ UNCHANGED << notLibVars, patterns, category_index, applied >>

\* the keys PatternApplicator::new registers its executors under.
ExecutorKeys == { "execute", "configure", "scale" }

\* impl Display for ActionType: the name of the variant.
ActionTypeToString(action_type) ==
    CASE action_type = "Execute" -> "Execute"
      [] action_type = "Configure" -> "Configure"
      [] action_type = "Scale" -> "Scale"
      [] action_type = "Restart" -> "Restart"
      [] action_type = "Deploy" -> "Deploy"
      [] OTHER -> "Rollback"

\* PatternApplicator::execute_step: "Err" without an executor, otherwise the
\* success of the step; the executors are stubs that return Ok.
ExecuteStep(step, dry_run) ==
    IF dry_run THEN "Success"
    ELSE IF ActionTypeToString(step.action_type) \notin ExecutorKeys THEN "Err"
    ELSE "Success"

RECURSIVE ApplySteps(_, _)
\* the loop of PatternApplicator::apply: "Err", or whether a rollback is needed.
ApplySteps(steps, dry_run) ==
    IF steps = << >> THEN "Done"
    ELSE LET first == ExecuteStep(Head(steps), dry_run)
         IN  IF first = "Err" THEN "Err"
             ELSE IF first = "Success" THEN ApplySteps(Tail(steps), dry_run)
             ELSE IF Head(steps).on_failure = "Skip" THEN ApplySteps(Tail(steps), dry_run)
             ELSE IF Head(steps).on_failure = "Retry"
               THEN LET retry == ExecuteStep(Head(steps), dry_run)
                    IN  IF retry = "Err" THEN "Err"
                        ELSE IF retry = "Success" THEN ApplySteps(Tail(steps), dry_run)
                        ELSE "Rollback"
             ELSE "Rollback"

\* success_count over the applications after this one.
ConfidenceScoreAhead(success_count, application_count) ==
    << success_count, application_count + 1 >>

\* the confidence_score update_pattern_metrics stores.
ConfidenceScore(success_count, application_count) ==
    << success_count, application_count >>

\* PatternLibrary::update_pattern_metrics
UpdatePatternMetrics(metrics, success, duration) ==
    LET application_count == metrics.application_count + 1
        success_count == metrics.success_count + (IF success THEN 1 ELSE 0)
        failure_count == metrics.failure_count + (IF success THEN 0 ELSE 1)
        total_time == metrics.average_resolution_time * application_count
    IN  [ metrics EXCEPT
            !.application_count = application_count,
            !.success_count = success_count,
            !.failure_count = failure_count,
            !.confidence_score = ConfidenceScore(success_count, application_count),
            !.average_resolution_time =
                (total_time + duration) \div (application_count + 1) ]

\* PatternLibrary::apply_pattern: get_pattern, apply, update_pattern_metrics.
ApplyPattern(pattern_id, dry_run, duration) ==
    /\ libraryCalls < MaxLibraryCalls
    /\ libraryCalls' = libraryCalls + 1
    /\ LET outcome == IF pattern_id \in DOMAIN patterns
                        THEN ApplySteps(patterns[pattern_id].solution.steps, dry_run)
                        ELSE "Err"
       IN  /\ applied' = << [ call |-> libraryCalls + 1,
                              pattern_id |-> pattern_id, dry_run |-> dry_run,
                              ok |-> outcome # "Err",
                              success |-> outcome = "Done",
                              duration |-> duration ] >>
           /\ IF outcome = "Err" THEN UNCHANGED patterns
              ELSE patterns' = [ patterns EXCEPT ![pattern_id].metrics =
                       UpdatePatternMetrics(@, outcome = "Done", duration) ]
    /\ UNCHANGED << notLibVars, category_index, detected >>

NextLibrary ==
    \/ \E pattern \in PatternTemplates : AddPattern(pattern)
    \/ \E context \in DetectionContexts, order \in IterationOrders :
          DetectPatterns(context, order)
    \/ \E pattern_id \in 1..MaxPatterns, dry_run \in BOOLEAN, duration \in { 0, 3 } :
          ApplyPattern(pattern_id, dry_run, duration)

SpecLibrary == InitIdle /\ [][NextLibrary]_vars

(***************************************************************************)
(* PatternMatcher (knowledge/patterns.rs).                                 *)
(***************************************************************************)
\* serde_json::Value: a string, a number, an object or null.
JsonString(text) == [ kind |-> "String", text |-> text, number |-> 0, fields |-> << >> ]

JsonNumber(number) == [ kind |-> "Number", text |-> "", number |-> number, fields |-> << >> ]

JsonNull == [ kind |-> "Null", text |-> "", number |-> 0, fields |-> << >> ]

\* an object: the pairs << key, value >> in key order.
JsonObject(pairs) == [ kind |-> "Object", text |-> "", number |-> 0, fields |-> pairs ]

\* Map::get(key): << >> for None, << value >> for Some.
JsonGet(object, key) ==
    IF \E k \in DOMAIN object.fields : object.fields[k][1] = key
      THEN << object.fields[CHOOSE k \in DOMAIN object.fields :
                                object.fields[k][1] = key][2] >>
      ELSE << >>

\* the payloads of the events matched here: Generic(json!({..})) with an
\* error_type, a component and perhaps a number of retries, and
\* Generic(json!("text")).
MatchPayloads ==
    { [ generic |-> "Object", error_type |-> error_type, component |-> component,
        retries |-> retries ] :
        error_type \in { "timeout", "refused" },
        component \in { "database-connector", "cache" },
        retries \in { << >>, << 3 >> } }
    \cup { [ generic |-> "String", error_type |-> "", component |-> "",
             retries |-> << >> ] }

\* the events match_event is called with.
MatchEvents ==
    [ id : { 1 }, event_type : { "ServiceFailed", "TaskFailed" }, payload : MatchPayloads ]

\* serde_json::to_value of the payload (#[serde(tag = "type")]): a Generic
\* object is written with its own fields and the tag; a Generic string
\* cannot be written.
MatchPayloadToValue(payload) ==
    IF payload.generic = "Object"
      THEN << JsonObject(
                << << "component", JsonString(payload.component) >>,
                   << "error_type", JsonString(payload.error_type) >> >>
                \o (IF payload.retries = << >> THEN << >>
                    ELSE << << "retries", JsonNumber(payload.retries[1]) >> >>)
                \o << << "type", JsonString("Generic") >> >>) >>
      ELSE << >>

\* serde_json::to_value(event).unwrap_or_default(): the object of the
\* Event's fields, or null when the payload cannot be written.
EventToValue(event) ==
    IF MatchPayloadToValue(event.payload) = << >> THEN JsonNull
    ELSE JsonObject(<< << "causation_id", JsonNull >>,
                       << "correlation_id", JsonNull >>,
                       << "event_type", JsonString(event.event_type) >>,
                       << "id", JsonNumber(event.id) >>,
                       << "payload", MatchPayloadToValue(event.payload)[1] >> >>)

\* MatchingRule: field.split('.') is kept as the sequence of its parts.
MatchingRule(field, operator, value) ==
    [ field |-> field, operator |-> operator, value |-> value ]

\* the rules of tests/integration_test.rs, which name the fields as the
\* payload has them.
PayloadFieldRules ==
    << MatchingRule(<< "error_type" >>, "Equals", JsonString("timeout")),
       MatchingRule(<< "component" >>, "Contains", JsonString("database")) >>

\* the same rules with the path from the event.
PathRules ==
    << MatchingRule(<< "payload", "error_type" >>, "Equals", JsonString("timeout")),
       MatchingRule(<< "payload", "component" >>, "Contains", JsonString("database")) >>

\* five rules, one for each operator.
OperatorRules ==
    PathRules
    \o << MatchingRule(<< "event_type" >>, "Equals", JsonString("ServiceFailed")),
          MatchingRule(<< "payload", "retries" >>, "GreaterThan", JsonNumber(2)),
          MatchingRule(<< "payload", "error_type" >>, "Regex", JsonString("^time")) >>

\* Pattern: the rules and the confidence in thousandths.
MatcherPatternTemplates ==
    [ matching_rules : { << >>, PayloadFieldRules, PathRules, OperatorRules },
      confidence : { 500, 900 } ]

\* str::contains for the texts used here.
StrContains(haystack, needle) ==
    \/ haystack = needle
    \/ needle = ""
    \/ haystack = "database-connector" /\ needle = "database"

\* Regex::is_match for the texts used here.
RegexIsMatch(regex, text) ==
    regex = "^time" /\ text = "timeout"

\* PartialEq of serde_json::Value.
JsonEqual(a, b) == a = b

RECURSIVE GetFieldValue(_, _)
\* PatternMatcher::get_field_value: << >> for None.
GetFieldValue(data, parts) ==
    IF parts = << >> THEN << data >>
    ELSE IF data.kind # "Object" THEN << >>
    ELSE IF JsonGet(data, Head(parts)) = << >> THEN << >>
    ELSE GetFieldValue(JsonGet(data, Head(parts))[1], Tail(parts))

\* the lookup of a field among the fields of the payload only.
GetPayloadFieldValue(data, parts) ==
    IF data.kind # "Object" \/ JsonGet(data, "payload") = << >> THEN << >>
    ELSE GetFieldValue(JsonGet(data, "payload")[1], parts)

\* the comparison of match_rule on the value found.
RuleHolds(rule, field_value) ==
    CASE rule.operator = "Equals" ->
             field_value # << >> /\ JsonEqual(field_value[1], rule.value)
      [] rule.operator = "Contains" ->
             /\ field_value # << >>
             /\ field_value[1].kind = "String"
             /\ rule.value.kind = "String"
             /\ StrContains(field_value[1].text, rule.value.text)
      [] rule.operator = "Regex" ->
             /\ field_value # << >>
             /\ field_value[1].kind = "String"
             /\ rule.value.kind = "String"
             /\ RegexIsMatch(rule.value.text, field_value[1].text)
      [] rule.operator = "GreaterThan" ->
             /\ field_value # << >>
             /\ field_value[1].kind = "Number"
             /\ rule.value.kind = "Number"
             /\ field_value[1].number > rule.value.number
      [] OTHER ->
             /\ field_value # << >>
             /\ field_value[1].kind = "Number"
             /\ rule.value.kind = "Number"
             /\ field_value[1].number < rule.value.number

\* PatternMatcher::match_rule
MatchRule(rule, data) == RuleHolds(rule, GetFieldValue(data, rule.field))

\* PatternMatcher::match_pattern: << >> for None, otherwise the confidence
\* match_ratio * pattern.confidence as << numerator, denominator >>.
MatchPattern(pattern, data) ==
    LET total == Len(pattern.matching_rules)
        matches == Cardinality({ k \in DOMAIN pattern.matching_rules :
                                   MatchRule(pattern.matching_rules[k], data) })
    IN  IF total = 0 THEN << >>
        ELSE IF 10 * matches >= 8 * total
          THEN << << matches * pattern.confidence, total * 1000 >> >>
          ELSE << >>

RECURSIVE MatchLoop(_, _)
\* the loop of match_event over the registered patterns.
MatchLoop(compiled, data) ==
    IF compiled = << >> THEN << >>
    ELSE (IF MatchPattern(Head(compiled), data) = << >> THEN << >>
          ELSE << [ pattern |-> Head(compiled),
                    confidence |-> MatchPattern(Head(compiled), data)[1] ] >>)
         \o MatchLoop(Tail(compiled), data)

\* one step of the stable matches.sort_by(..), higher confidence first.
InsertMatch(sorted, match) ==
    LET k == Cardinality({ i \in DOMAIN sorted :
                             ~FracGreater(match.confidence, sorted[i].confidence) })
    IN  SubSeq(sorted, 1, k) \o << match >> \o SubSeq(sorted, k + 1, Len(sorted))

RECURSIVE SortMatches(_)
SortMatches(s) ==
    IF s = << >> THEN << >>
    ELSE InsertMatch(SortMatches(SubSeq(s, 1, Len(s) - 1)), s[Len(s)])

\* PatternMatcher::register_pattern
RegisterPattern(pattern) ==
    /\ Len(matcherPatterns) < MaxMatcherPatterns
    /\ matcherPatterns' = Append(matcherPatterns, pattern)
    /\ UNCHANGED << notMatchVars, matchesFound >>

\* PatternMatcher::match_event
MatchEvent(event) ==
    /\ matchesFound' =
         << [ event |-> event, registered |-> Len(matcherPatterns),
              matches |-> SortMatches(MatchLoop(matcherPatterns, EventToValue(event))) ] >>
    /\ UNCHANGED << notMatchVars, matcherPatterns >>

NextMatcher ==
    \/ \E pattern \in MatcherPatternTemplates : RegisterPattern(pattern)
    \/ \E event \in MatchEvents : MatchEvent(event)

SpecMatcher == InitIdle /\ [][NextMatcher]_vars

(***************************************************************************)
(* BatchingProcessor (events/processor.rs) and the clones the event mesh   *)
(* makes of it (events/mesh.rs).                                           *)
(***************************************************************************)
\* the batch sizes BatchingProcessor::new is called with.
BatchSizes == { 1, 2, 3 }

BatchEventIds == 1..MaxBatchEvents

\* a call of process_batch: the events, and who made it.
Batch(batch_events, by) == [ events |-> batch_events, by |-> by ]

\* BatchingProcessor::new: the empty buffer and the spawned ticker.
NewBatchingProcessor(size) ==
    /\ batch_size = 0
    /\ batch_size' = size
    /\ buffer' = << >>
    /\ UNCHANGED << notBatchVars, batches, handed, cloneDropped >>

\* the body of the ticker task after interval.tick(): a buffer that is not
\* empty is taken and passed to process_batch.
Tick ==
    /\ batch_size # 0
    /\ buffer # << >>
    /\ batches' = Append(batches, Batch(buffer, "timeout"))
    /\ buffer' = << >>
    /\ UNCHANGED << notBatchVars, batch_size, handed, cloneDropped >>

\* BatchingProcessor::process on a buffer: the buffer left, and the batch
\* passed to process_batch (<< >> when the buffer is below batch_size).
ProcessOn(buf, event) ==
    IF Len(buf) + 1 >= batch_size
      THEN [ buffer |-> << >>, batch |-> << Append(buf, event) >> ]
      ELSE [ buffer |-> Append(buf, event), batch |-> << >> ]

\* the ids handed over so far.
HandedIds == { handed[k].id : k \in DOMAIN handed }

\* BatchingProcessor::process called on the processor itself.
Process(event) ==
    /\ batch_size # 0
    /\ event \notin HandedIds
    /\ handed' = Append(handed, [ id |-> event, via |-> "direct" ])
    /\ buffer' = ProcessOn(buffer, event).buffer
    /\ batches' = IF ProcessOn(buffer, event).batch = << >> THEN batches
                  ELSE Append(batches, Batch(ProcessOn(buffer, event).batch[1], "size"))
    /\ UNCHANGED << notBatchVars, batch_size, cloneDropped >>

\* BatchingProcessor::clone_box: the same sizes, a new empty buffer, no ticker.
CloneBoxBuffer == << >>

\* EventMesh::route_to_processors for a published event: clone_box, and the
\* spawned task that calls process on the clone and drops it.
ProcessThroughMesh(event) ==
    /\ batch_size # 0
    /\ event \notin HandedIds
    /\ handed' = Append(handed, [ id |-> event, via |-> "mesh" ])
    /\ LET done == ProcessOn(CloneBoxBuffer, event)
       IN  /\ batches' = IF done.batch = << >> THEN batches
                         ELSE Append(batches, Batch(done.batch[1], "clone"))
           /\ cloneDropped' = Append(cloneDropped, done.buffer)
    /\ UNCHANGED << notBatchVars, batch_size, buffer >>

NextBatching ==
    \/ \E size \in BatchSizes : NewBatchingProcessor(size)
    \/ Tick
    \/ \E event \in BatchEventIds : Process(event)
    \/ \E event \in BatchEventIds : ProcessThroughMesh(event)

\* the ticker fires again and again.
SpecBatching == InitIdle /\ [][NextBatching]_vars /\ WF_vars(Tick)

(***************************************************************************)
(* The consumer task of a subscription (events/mesh.rs: start_consumer,    *)
(* read_stream, handle_stream_event), one await at a time.                 *)
(***************************************************************************)
\* the filter of the subscription: EventFilter::by_types(..).
SubscribedTypes == { "TaskFailed" }

\* the "data" field of an entry: the JSON of an event of one of two types,
\* or a text that is not the JSON of an Event.
EntryData == { "TaskFailed", "ServiceStarted", "not an event" }

\* serde_json::from_str::<Event>: << >> for Err.
ParseEntry(data) == IF data = "not an event" THEN << >> ELSE << data >>

\* XADD by a client of the Redis server on the stream the consumer reads.
Xadd(data) ==
    /\ Len(stream_entries) < MaxStreamEntries
    /\ stream_entries' = Append(stream_entries,
                                [ id |-> Len(stream_entries) + 1, data |-> data ])
    /\ UNCHANGED << notConsumerVars, group_cursor, acked, reply, read_events,
                    stream_handled, consumer_pc >>

\* EventMesh::subscribe: the subscription is stored and the consumer task
\* started; the group is created at "$", the end of the stream.
SubscribeConsumer ==
    /\ consumer_pc = "none"
    /\ consumer_pc' = "select"
    /\ group_cursor' = Len(stream_entries)
    /\ UNCHANGED << notConsumerVars, stream_entries, acked, reply, read_events,
                    stream_handled >>

\* read_stream, XREADGROUP ">" with count 10: the new entries are delivered.
Xread ==
    /\ consumer_pc = "select"
    /\ group_cursor < Len(stream_entries)
    /\ reply' = Take(SubSeq(stream_entries, group_cursor + 1, Len(stream_entries)),
                     ReadCount)
    /\ group_cursor' = group_cursor + Len(reply')
    /\ read_events' = << >>
    /\ consumer_pc' = "read_stream"
    /\ UNCHANGED << notConsumerVars, stream_entries, acked, stream_handled >>

\* read_stream, one message of the reply: an entry that parses is pushed
\* and acknowledged; the result of XACK is ignored.
ParseMessage(xack_ok) ==
    /\ consumer_pc = "read_stream"
    /\ reply # << >>
    /\ reply' = Tail(reply)
    /\ IF ParseEntry(Head(reply).data) # << >>
         THEN /\ read_events' = Append(read_events,
                     [ id |-> Head(reply).id,
                       event_type |-> ParseEntry(Head(reply).data)[1] ])
              /\ acked' = IF xack_ok THEN acked \cup { Head(reply).id } ELSE acked
         ELSE UNCHANGED << read_events, acked >>
    /\ UNCHANGED << notConsumerVars, stream_entries, group_cursor, stream_handled,
                    consumer_pc >>

\* read_stream returns Ok(events).
ReadReturns ==
    /\ consumer_pc = "read_stream"
    /\ reply = << >>
    /\ consumer_pc' = IF read_events = << >> THEN "select" ELSE "handling"
    /\ UNCHANGED << notConsumerVars, stream_entries, group_cursor, acked, reply,
                    read_events, stream_handled >>

\* handle_stream_event for the next event: the filter, and the handler for
\* an event that matches; an Err of the handler is logged.
HandleStreamEvent(handler_ok) ==
    /\ consumer_pc = "handling"
    /\ read_events # << >>
    /\ stream_handled' = Append(stream_handled,
           [ id |-> Head(read_events).id,
             matched |-> Head(read_events).event_type \in SubscribedTypes,
             handler |-> IF Head(read_events).event_type \in SubscribedTypes
                           THEN (IF handler_ok THEN "Ok" ELSE "Err")
                           ELSE "none" ])
    /\ read_events' = Tail(read_events)
    /\ consumer_pc' = IF Tail(read_events) = << >> THEN "select" ELSE "handling"
    /\ UNCHANGED << notConsumerVars, stream_entries, group_cursor, acked, reply >>

\* shutdown_rx.recv() wins the select: at the top of the loop, or while
\* read_stream waits for Redis, whose future is then dropped.
ConsumerShutdown ==
    /\ consumer_pc \in { "select", "read_stream" }
    /\ consumer_pc' = "stopped"
    /\ reply' = << >>
    /\ read_events' = << >>
    /\ UNCHANGED << notConsumerVars, stream_entries, group_cursor, acked,
                    stream_handled >>

NextConsumer ==
    \/ \E data \in EntryData : Xadd(data)
    \/ SubscribeConsumer
    \/ Xread
    \/ \E xack_ok \in BOOLEAN : ParseMessage(xack_ok)
    \/ ReadReturns
    \/ \E handler_ok \in BOOLEAN : HandleStreamEvent(handler_ok)
    \/ ConsumerShutdown

\* the consumer task keeps running.
ConsumerFairness ==
    /\ WF_vars(Xread)
    /\ WF_vars(\E xack_ok \in BOOLEAN : ParseMessage(xack_ok))
    /\ WF_vars(ReadReturns)
    /\ WF_vars(\E handler_ok \in BOOLEAN : HandleStreamEvent(handler_ok))

SpecConsumer == InitIdle /\ [][NextConsumer]_vars /\ ConsumerFairness

(***************************************************************************)
(* The tasks lock of the task manager (a2a manager.rs): every call that    *)
(* takes it, one step per acquisition and per release of a guard.  The     *)
(* locks of agents, workflows and the queue service are held inside one    *)
(* step and are not modelled.                                              *)
(***************************************************************************)
\* the calls made on the task manager in one run.
MaxLockCalls == 5

\* the agent types that are registered and asked for in this specification.
LockAgents == { "import" }

\* the workflow type create_task is called with in this specification.
LockWorkflows == { "import_only" }

\* the status an outside caller of update_task_status passes.
LockStatuses == { "cancelled" }

\* RwLock::read can be granted: no write guard is out.
CanRead(lock) == lock.writer = {}

\* RwLock::write can be granted: no guard is out.
CanWrite(lock) == lock.readers = {} /\ lock.writer = {}

\* the lock once thread t has a read guard.
ReadLock(lock, t) == [ lock EXCEPT !.readers = @ \cup {t} ]

\* the lock once thread t has the write guard.
WriteLock(lock, t) == [ lock EXCEPT !.writer = {t} ]

\* a guard that is never dropped.
KeepGuard(lock, t) == lock

\* the guard of thread t dropped: by drop(..) or at the end of its scope.
DropGuard(lock, t) ==
    [ readers |-> lock.readers \ {t}, writer |-> lock.writer \ {t} ]

\* update_task_status: the write guard dropped at the return.
GuardAfterStatus(lock, t) == DropGuard(lock, t)

\* thread t has a guard of the tasks lock.
HoldsTasksLock(t) == t \in tasks_lock.readers \cup tasks_lock.writer

\* the threads whose process_task is inside agent.execute_task now.
Executing == { t \in Threads : thread_pc[t] = "executing" }

\* thread t enters a call; its first step is at position first.
BeginCall(t, op, task_id, agent_type, status, workflow_type, first) ==
    /\ thread_pc[t] = "idle"
    /\ lockCalls < MaxLockCalls
    /\ lockCalls' = lockCalls + 1
    /\ thread_call' = [ thread_call EXCEPT ![t] =
                          [ op |-> op, task_id |-> task_id,
                            agent_type |-> agent_type, status |-> status,
                            workflow_type |-> workflow_type,
                            during |-> Executing ] ]
    /\ thread_pc' = [ thread_pc EXCEPT ![t] = first ]
    /\ UNCHANGED << tasks_lock, snapshot, execute_result, pending, overlapped,
                    agents, tasks, redis, notLockVars >>

\* the call of thread t returns Ok (ok) or Err; a call that returns Ok
\* inside an execute_task that was running when it began is recorded.
Return(t, ok) ==
    /\ thread_pc' = [ thread_pc EXCEPT ![t] = "idle" ]
    /\ thread_call' = [ thread_call EXCEPT ![t] = NoCall ]
    /\ snapshot' = [ snapshot EXCEPT ![t] = << >> ]
    /\ execute_result' = [ execute_result EXCEPT ![t] = << >> ]
    /\ overlapped' = IF ok /\ thread_call[t].during \cap Executing # {}
                       THEN overlapped \cup { thread_call[t].op }
                       ELSE overlapped

\* thread t moves on inside its call.
Goto(t, next) ==
    /\ thread_pc' = [ thread_pc EXCEPT ![t] = next ]
    /\ UNCHANGED << thread_call, overlapped >>

\* TaskManager::get_task is called.
GetTaskCall(t, task_id) ==
    /\ task_id \in 1..MaxTasks
    /\ BeginCall(t, "get_task", task_id, None, None, None, "get_task")

\* get_task: self.tasks.read().await is granted.
GetTaskLock(t) ==
    /\ thread_pc[t] = "get_task"
    /\ CanRead(tasks_lock)
    /\ tasks_lock' = ReadLock(tasks_lock, t)
    /\ Goto(t, "get_task_locked")
    /\ UNCHANGED << snapshot, execute_result, pending, lockCalls,
                    agents, tasks, redis, notLockVars >>

\* get_task: the task is cloned and the guard dropped at the return; inside
\* process_task the clone becomes `task`, and a missing task ends the call.
GetTaskReturn(t) ==
    /\ thread_pc[t] = "get_task_locked"
    /\ tasks_lock' = DropGuard(tasks_lock, t)
    /\ LET found == thread_call[t].task_id \in DOMAIN tasks IN
       IF thread_call[t].op = "process_task" /\ found
         THEN /\ snapshot' = [ snapshot EXCEPT ![t] = << tasks[thread_call[t].task_id] >> ]
              /\ Goto(t, "agents")
              /\ UNCHANGED execute_result
         ELSE Return(t, found)
    /\ UNCHANGED << pending, lockCalls, agents, tasks, redis, notLockVars >>

\* TaskManager::update_task_status is called.
UpdateTaskStatusCall(t, task_id, status) ==
    /\ task_id \in 1..MaxTasks
    /\ BeginCall(t, "update_task_status", task_id, None, status, None, "status")

\* update_task_status: self.tasks.write().await is granted.
UpdateTaskStatusLock(t) ==
    /\ thread_pc[t] = "status"
    /\ CanWrite(tasks_lock)
    /\ tasks_lock' = WriteLock(tasks_lock, t)
    /\ Goto(t, "status_locked")
    /\ UNCHANGED << snapshot, execute_result, pending, lockCalls,
                    agents, tasks, redis, notLockVars >>

\* update_task_status: the status is written and the guard dropped at the
\* return; inside process_task the status is Running and execute_task is
\* called next.
UpdateTaskStatusReturn(t) ==
    /\ thread_pc[t] = "status_locked"
    /\ tasks_lock' = GuardAfterStatus(tasks_lock, t)
    /\ LET task_id == thread_call[t].task_id
           found == task_id \in DOMAIN tasks
           status == IF thread_call[t].op = "process_task"
                       THEN "running" ELSE thread_call[t].status
       IN  /\ tasks' = IF found
                         THEN [ tasks EXCEPT ![task_id] = UpdateStatus(@, status) ]
                         ELSE tasks
           /\ IF thread_call[t].op = "process_task" /\ found
                THEN /\ Goto(t, "executing")
                     /\ UNCHANGED << snapshot, execute_result >>
                ELSE Return(t, found)
    /\ UNCHANGED << pending, lockCalls, agents, redis, notLockVars >>

\* TaskManager::process_task is called.
ProcessTaskCall(t, task_id, agent_type) ==
    /\ task_id \in 1..MaxTasks
    /\ BeginCall(t, "process_task", task_id, agent_type, None, None, "get_task")

\* process_task: the agent is looked up under the agents lock, cloned, and
\* that guard dropped; an unknown agent type ends the call.
ProcessTaskAgent(t) ==
    /\ thread_pc[t] = "agents"
    /\ IF thread_call[t].agent_type \in agents
         THEN /\ Goto(t, "status")
              /\ UNCHANGED << snapshot, execute_result >>
         ELSE Return(t, FALSE)
    /\ UNCHANGED << tasks_lock, pending, lockCalls, agents, tasks, redis,
                    notLockVars >>

\* process_task: agent.execute_task(&task) returns Ok(artifacts) or Err.
ExecuteTaskReturns(t, ok, artifacts) ==
    /\ thread_pc[t] = "executing"
    /\ execute_result' = [ execute_result EXCEPT ![t] =
                             << [ ok |-> ok, artifacts |-> artifacts ] >> ]
    /\ thread_pc' = [ thread_pc EXCEPT ![t] = "result" ]
    /\ thread_call' = [ u \in Threads |->
                          [ thread_call[u] EXCEPT !.during = @ \ {t} ] ]
    /\ UNCHANGED << tasks_lock, snapshot, pending, overlapped, lockCalls,
                    agents, tasks, redis, notLockVars >>

\* process_task: self.tasks.write().await of either match arm is granted.
ProcessTaskResultLock(t) ==
    /\ thread_pc[t] = "result"
    /\ CanWrite(tasks_lock)
    /\ tasks_lock' = WriteLock(tasks_lock, t)
    /\ Goto(t, "result_locked")
    /\ UNCHANGED << snapshot, execute_result, pending, lockCalls,
                    agents, tasks, redis, notLockVars >>

\* process_task: the Ok arm stores the artifacts and a message, drops the
\* guard and goes on to queue_next_agent; the Err arm stores a message and
\* the status Failed, and the call returns Ok(()).
ProcessTaskResultWrite(t) ==
    /\ thread_pc[t] = "result_locked"
    /\ tasks_lock' = DropGuard(tasks_lock, t)
    /\ LET task_id == thread_call[t].task_id
           agent_type == thread_call[t].agent_type
           result == execute_result[t][1]
       IN  IF result.ok
             THEN /\ tasks' = [ tasks EXCEPT ![task_id] =
                                  AddMessage(AddArtifacts(@, result.artifacts),
                                             InfoMessage(agent_type)) ]
                  /\ Goto(t, "queue")
                  /\ UNCHANGED << snapshot, execute_result >>
             ELSE /\ tasks' = [ tasks EXCEPT ![task_id] =
                                  UpdateStatus(AddMessage(@, ErrorMessage(agent_type)),
                                               "failed") ]
                  /\ Return(t, TRUE)
    /\ UNCHANGED << pending, lockCalls, agents, redis, notLockVars >>

\* queue_next_agent: self.tasks.write().await is granted.
QueueNextAgentLock(t) ==
    /\ thread_pc[t] = "queue"
    /\ CanWrite(tasks_lock)
    /\ tasks_lock' = WriteLock(tasks_lock, t)
    /\ Goto(t, "queue_locked")
    /\ UNCHANGED << snapshot, execute_result, pending, lockCalls,
                    agents, tasks, redis, notLockVars >>

\* queue_next_agent under the guard: the cursor advances and the QueueTask
\* is built, or the task is completed; the guard is dropped before the
\* enqueue, or at the return.
QueueNextAgentWrite(t) ==
    /\ thread_pc[t] = "queue_locked"
    /\ tasks_lock' = DropGuard(tasks_lock, t)
    /\ LET task_id == thread_call[t].task_id
           na == NextAgent(tasks[task_id])
       IN  /\ tasks' = QueueNextAgent(tasks, redis, task_id, TRUE).tasks
           /\ IF na.agent # None /\ QueueNameFor(na.agent) # None
                THEN /\ pending' = [ pending EXCEPT ![t] =
                                       << [ queue |-> QueueNameFor(na.agent),
                                            task |-> QueueTask(task_id, na.agent,
                                                               InitialPriority,
                                                               InitialAttempts) ] >> ]
                     /\ Goto(t, "enqueue")
                     /\ UNCHANGED << snapshot, execute_result >>
                ELSE /\ Return(t, na.agent = None)
                     /\ UNCHANGED pending
    /\ UNCHANGED << lockCalls, agents, redis, notLockVars >>

\* queue_next_agent: queue.enqueue succeeds or fails, and the call that
\* ran queue_next_agent returns what it returned.
QueueNextAgentEnqueue(t, enqueueOk) ==
    /\ thread_pc[t] = "enqueue"
    /\ redis' = IF enqueueOk
                  THEN Enqueue(redis, pending[t][1].queue, pending[t][1].task)
                  ELSE redis
    /\ pending' = [ pending EXCEPT ![t] = << >> ]
    /\ Return(t, enqueueOk)
    /\ UNCHANGED << tasks_lock, lockCalls, agents, tasks, notLockVars >>

\* the create_task calls that have not inserted their task yet.
Creating ==
    { t \in Threads : thread_pc[t] \in { "create", "create_locked" } }

\* TaskManager::create_task is called with a registered workflow type; the
\* task is built before the tasks lock is asked for.
CreateTaskCall(t, workflow_type) ==
    /\ Len(tasks) + Cardinality(Creating) < MaxTasks
    /\ BeginCall(t, "create_task", 0, None, None, workflow_type, "create")

\* create_task: self.tasks.write().await is granted.
CreateTaskLock(t) ==
    /\ thread_pc[t] = "create"
    /\ CanWrite(tasks_lock)
    /\ tasks_lock' = WriteLock(tasks_lock, t)
    /\ Goto(t, "create_locked")
    /\ UNCHANGED << snapshot, execute_result, pending, lockCalls,
                    agents, tasks, redis, notLockVars >>

\* create_task: the task is inserted, the guard dropped, and
\* queue_next_agent called.
CreateTaskInsert(t) ==
    /\ thread_pc[t] = "create_locked"
    /\ tasks_lock' = DropGuard(tasks_lock, t)
    /\ LET workflow_type == thread_call[t].workflow_type IN
       tasks' = Append(tasks, NewTask(workflow_type, WorkflowName[workflow_type],
                                      Workflows[workflow_type]))
    /\ thread_call' = [ thread_call EXCEPT ![t].task_id = Len(tasks) + 1 ]
    /\ thread_pc' = [ thread_pc EXCEPT ![t] = "queue" ]
    /\ UNCHANGED << snapshot, execute_result, pending, overlapped, lockCalls,
                    agents, redis, notLockVars >>

\* The task manager called from two threads: agents are registered, tasks
\* created, read, updated and processed, every call step by step.
NextLocks ==
    \/ \E a \in LockAgents : RegisterAgent(a)
    \/ \E t \in Threads, w \in LockWorkflows : CreateTaskCall(t, w)
    \/ \E t \in Threads : CreateTaskLock(t)
    \/ \E t \in Threads : CreateTaskInsert(t)
    \/ \E t \in Threads, id \in 1..MaxTasks : GetTaskCall(t, id)
    \/ \E t \in Threads : GetTaskLock(t)
    \/ \E t \in Threads : GetTaskReturn(t)
    \/ \E t \in Threads, id \in 1..MaxTasks, s \in LockStatuses :
          UpdateTaskStatusCall(t, id, s)
    \/ \E t \in Threads : UpdateTaskStatusLock(t)
    \/ \E t \in Threads : UpdateTaskStatusReturn(t)
    \/ \E t \in Threads, id \in 1..MaxTasks, a \in LockAgents :
          ProcessTaskCall(t, id, a)
    \/ \E t \in Threads : ProcessTaskAgent(t)
    \/ \E t \in Threads :
          \E arts \in NonEmptyResults(thread_call[t].agent_type) :
             ExecuteTaskReturns(t, TRUE, arts)
    \/ \E t \in Threads : ExecuteTaskReturns(t, FALSE, << >>)
    \/ \E t \in Threads : ProcessTaskResultLock(t)
    \/ \E t \in Threads : ProcessTaskResultWrite(t)
    \/ \E t \in Threads : QueueNextAgentLock(t)
    \/ \E t \in Threads : QueueNextAgentWrite(t)
    \/ \E t \in Threads, ok \in BOOLEAN : QueueNextAgentEnqueue(t, ok)

SpecLocks == InitIdle /\ [][NextLocks]_vars

(***************************************************************************)
(* add_problem called from several tasks at once (knowledge/mod.rs): the   *)
(* SELECT of find_similar_problem, the UPDATE of                           *)
(* increment_problem_occurrences and the INSERT are separate statements on *)
(* the pool, each atomic by itself, with no transaction around them.       *)
(***************************************************************************)
\* the add_problem calls that have begun and not returned.
AddRunning == { c \in AddCallers : add_pc[c] # "idle" }

\* add_problem is called: the fingerprint is computed and the SELECT of
\* find_similar_problem is about to be sent.
AddProblemBegin(c, problem) ==
    /\ add_pc[c] = "idle"
    /\ Len(kgCalls) + Cardinality(AddRunning) < MaxKgCalls
    /\ clock' = clock + 1
    /\ add_pc' = [ add_pc EXCEPT ![c] = "find" ]
    /\ add_arg' = [ add_arg EXCEPT ![c] = << problem >> ]
    /\ add_overlap' = (add_overlap \/ AddRunning # {})
    /\ UNCHANGED << nodes, node_cache, kgCalls, add_found, notAddVars >>

\* find_similar_problem: the SELECT runs; LIMIT 1 returns any matching row.
AddProblemFind(c) ==
    /\ add_pc[c] = "find"
    /\ LET found == FindSimilarProblem(GenerateFingerprint(add_arg[c][1])) IN
       IF found # {}
         THEN /\ \E i \in found :
                   add_found' = [ add_found EXCEPT ![c] = << nodes[i].id >> ]
              /\ add_pc' = [ add_pc EXCEPT ![c] = "increment" ]
         ELSE /\ add_pc' = [ add_pc EXCEPT ![c] = "embed" ]
              /\ UNCHANGED add_found
    /\ UNCHANGED << nodes, node_cache, clock, kgCalls, add_arg, add_overlap,
                    notAddVars >>

\* the call of caller c returns result: << id >> for Ok(id), << >> for Err.
AddProblemReturn(c, result) ==
    /\ kgCalls' = Append(kgCalls, Call("add_problem", add_arg[c][1], result))
    /\ add_pc' = [ add_pc EXCEPT ![c] = "idle" ]
    /\ add_arg' = [ add_arg EXCEPT ![c] = << >> ]
    /\ add_found' = [ add_found EXCEPT ![c] = << >> ]

\* increment_problem_occurrences: the UPDATE of the row found, one
\* statement; add_problem returns the existing id.
AddProblemIncrement(c) ==
    /\ add_pc[c] = "increment"
    /\ nodes' = [ i \in DOMAIN nodes |->
                    IF nodes[i].id = add_found[c][1]
                      THEN [ nodes[i] EXCEPT !.data.occurrence_count = @ + 1,
                                             !.data.last_seen = clock ]
                      ELSE nodes[i] ]
    /\ AddProblemReturn(c, add_found[c])
    /\ UNCHANGED << node_cache, clock, add_overlap, notAddVars >>

\* generate_embedding of the description succeeds or fails; a failure ends
\* the call with Err.
AddProblemEmbed(c, embedded) ==
    /\ add_pc[c] = "embed"
    /\ IF embedded
         THEN /\ add_pc' = [ add_pc EXCEPT ![c] = "insert" ]
              /\ UNCHANGED << kgCalls, add_arg, add_found >>
         ELSE AddProblemReturn(c, << >>)
    /\ UNCHANGED << nodes, node_cache, clock, add_overlap, notAddVars >>

\* the INSERT of the problem as the caller gave it under a fresh id, then
\* the cache entry; add_problem returns the new id.
AddProblemInsert(c) ==
    /\ add_pc[c] = "insert"
    /\ LET problem == add_arg[c][1]
           id == Len(nodes) + 1
       IN  /\ nodes' = Append(nodes,
                  [ id |-> id, node_type |-> "problem",
                    data |-> [ fingerprint |-> problem.fingerprint,
                               category |-> problem.category,
                               description |-> problem.description,
                               error_patterns |-> problem.error_patterns,
                               occurrence_count |-> problem.occurrence_count,
                               last_seen |-> clock ] ])
           /\ node_cache' = [ node_cache EXCEPT ![id] = << problem >> ]
           /\ AddProblemReturn(c, << id >>)
    /\ UNCHANGED << clock, add_overlap, notAddVars >>

\* add_problem called by tasks that run at the same time.
NextAddProblem ==
    \/ \E c \in AddCallers, problem \in Problems : AddProblemBegin(c, problem)
    \/ \E c \in AddCallers : AddProblemFind(c)
    \/ \E c \in AddCallers : AddProblemIncrement(c)
    \/ \E c \in AddCallers, embedded \in BOOLEAN : AddProblemEmbed(c, embedded)
    \/ \E c \in AddCallers : AddProblemInsert(c)

SpecAddProblem == InitIdle /\ [][NextAddProblem]_vars

(***************************************************************************)
(* PatternApplicator (patterns/application.rs): execute_step, the loop of  *)
(* apply with the four failure strategies, and rollback.                   *)
(***************************************************************************)
\* the apply calls made in one run.
MaxApplyCalls == 1

\* the steps of a solution have at most this many entries.
MaxSteps == 2

\* ActionType of the steps handed to apply.
StepActionTypes == { "Execute", "Configure", "Scale", "Restart" }

\* FailureStrategy
FailureStrategies == { "Retry", "Skip", "Abort", "Rollback" }

\* solution.steps: up to MaxSteps steps, their order fields 1, 2, ..
ApplicatorStepLists ==
    UNION { [ 1..n -> [ action_type : StepActionTypes,
                        on_failure : FailureStrategies ] ] : n \in 0..MaxSteps }

\* solution.rollback_steps: up to two steps, given by their action types.
RollbackLists ==
    { << >>, << "Execute" >>, << "Restart" >>, << "Execute", "Scale" >>,
      << "Restart", "Execute" >> }

\* a SolutionStep: its order, the type of its action, its strategy.
SolutionStep(order, action_type, on_failure) ==
    [ order |-> order, action_type |-> action_type, on_failure |-> on_failure ]

\* the PatternSolution made of a list of steps and a list of rollback
\* steps, whose order fields go on from 11.
PatternSolution(steps, rollback) ==
    [ steps |-> [ i \in DOMAIN steps |->
                    SolutionStep(i, steps[i].action_type, steps[i].on_failure) ],
      rollback_steps |-> [ i \in DOMAIN rollback |->
                             SolutionStep(10 + i, rollback[i], "Skip") ] ]

\* PatternApplicator::new: the three executors under their keys; they are
\* stubs, and no execution of theirs fails.
NewApplicator == [ executors |-> ExecutorKeys, failing |-> {} ]

\* PatternApplicator::execute_step, attempt telling the first execution of
\* a step from its retry: Err(NotFound) without an executor under the text of
\* the action type, otherwise the StepResult and the executor that ran.
ApplicatorExecuteStep(applicator, step, dry_run, attempt) ==
    IF dry_run
      THEN [ err |-> FALSE, step_order |-> step.order, success |-> TRUE,
             executor |-> None ]
      ELSE LET key == ActionTypeToString(step.action_type) IN
           IF key \notin applicator.executors
             THEN [ err |-> TRUE, step_order |-> step.order, success |-> FALSE,
                    executor |-> None ]
             ELSE [ err |-> FALSE, step_order |-> step.order,
                    success |-> << step.order, attempt >> \notin applicator.failing,
                    executor |-> key ]

\* the StepResult pushed to step_results.
StepResult(r) == [ step_order |-> r.step_order, success |-> r.success ]

RECURSIVE ApplyLoop(_, _, _, _, _)
\* the loop of PatternApplicator::apply over the steps left: whether an
\* execute_step returned Err, rollback_needed, step_results, and the
\* execute_step calls made, in order.
ApplyLoop(applicator, steps, dry_run, step_results, trace) ==
    IF steps = << >>
      THEN [ err |-> FALSE, rollback_needed |-> FALSE,
             step_results |-> step_results, trace |-> trace ]
      ELSE
        LET step == Head(steps)
            step_result == ApplicatorExecuteStep(applicator, step, dry_run, 1)
            retry_result == ApplicatorExecuteStep(applicator, step, dry_run, 2)
            stop(results, calls) ==
                [ err |-> FALSE, rollback_needed |-> TRUE,
                  step_results |-> results, trace |-> calls ]
        IN  IF step_result.err
              THEN [ err |-> TRUE, rollback_needed |-> FALSE,
                     step_results |-> step_results,
                     trace |-> Append(trace, step_result) ]
            ELSE IF step_result.success
              THEN ApplyLoop(applicator, Tail(steps), dry_run,
                             Append(step_results, StepResult(step_result)),
                             Append(trace, step_result))
            ELSE IF step.on_failure = "Retry"
              THEN IF retry_result.err
                     THEN [ err |-> TRUE, rollback_needed |-> FALSE,
                            step_results |-> step_results,
                            trace |-> trace \o << step_result, retry_result >> ]
                   ELSE IF retry_result.success
                     THEN ApplyLoop(applicator, Tail(steps), dry_run,
                                    Append(step_results, StepResult(retry_result)),
                                    trace \o << step_result, retry_result >>)
                   ELSE stop(Append(step_results, StepResult(retry_result)),
                             trace \o << step_result, retry_result >>)
            ELSE IF step.on_failure = "Skip"
              THEN ApplyLoop(applicator, Tail(steps), dry_run,
                             Append(step_results, StepResult(step_result)),
                             Append(trace, step_result))
            ELSE IF step.on_failure = "Abort"
              THEN stop(Append(step_results, StepResult(step_result)),
                        Append(trace, step_result))
            ELSE stop(Append(step_results, StepResult(step_result)),
                      Append(trace, step_result))

\* PatternApplicator::rollback: execute_step on the rollback steps in
\* reverse order, whatever each call returns; the calls made, in order.
ApplicatorRollback(applicator, rollback_steps, dry_run) ==
    LET reversed == Reverse(rollback_steps) IN
    [ i \in DOMAIN reversed |->
        ApplicatorExecuteStep(applicator, reversed[i], dry_run, 1) ]

\* PatternApplicator::apply: Ok(ApplicationResult) or Err, with the
\* execute_step calls of the loop and of the rollback.
ApplicatorApply(applicator, solution, dry_run) ==
    LET loop == ApplyLoop(applicator, solution.steps, dry_run, << >>, << >>) IN
    IF loop.err
      THEN [ ok |-> FALSE, success |-> FALSE, steps_executed |-> << >>,
             trace |-> loop.trace, rollback |-> << >> ]
      ELSE [ ok |-> TRUE, success |-> ~loop.rollback_needed,
             steps_executed |-> loop.step_results, trace |-> loop.trace,
             rollback |-> IF loop.rollback_needed /\ ~dry_run
                            THEN ApplicatorRollback(applicator,
                                     solution.rollback_steps, dry_run)
                            ELSE << >> ]

\* apply is called on the applicator PatternApplicator::new made.
ApplicatorApplyCall(steps, rollback, dry_run) ==
    /\ applyCalls < MaxApplyCalls
    /\ applyCalls' = applyCalls + 1
    /\ LET solution == PatternSolution(steps, rollback) IN
       apply_result' = << [ call |-> applyCalls + 1, solution |-> solution,
                            dry_run |-> dry_run,
                            result |-> ApplicatorApply(NewApplicator, solution,
                                                       dry_run) ] >>
    /\ UNCHANGED notApplVars

NextApplicator ==
    \E steps \in ApplicatorStepLists, rollback \in RollbackLists,
       dry_run \in BOOLEAN : ApplicatorApplyCall(steps, rollback, dry_run)

SpecApplicator == InitIdle /\ [][NextApplicator]_vars

(***************************************************************************)
(* ErrorHandlingProcessor (events/processor.rs): the events routed to it,  *)
(* and process() with its retry branch and its dead-letter branch.         *)
(***************************************************************************)
\* the largest retry limit given to ErrorHandlingProcessor::new.
MaxRetryLimit == 2

\* the events routed to the processor in one run.
MaxErrorEvents == 3

\* metadata.custom of the events routed to the processor: the "failed"
\* marker, and "retry_attempts", absent (<< >>) or a number (<< n >>).
ErrorEvents ==
    [ id : 1..MaxErrorEvents, failed : BOOLEAN,
      retry_attempts : { << >> } \cup { << n >> : n \in 0..(MaxRetryLimit + 1) } ]

\* ErrorHandlingProcessor::new, with or without with_dead_letter_handler.
NewErrorHandlingProcessor(retry_attempts, with_handler) ==
    /\ eh_processor = << >>
    /\ eh_processor' = << [ retry_attempts |-> retry_attempts,
                           dead_letter_handler |-> with_handler ] >>
    /\ UNCHANGED << eh_inbox, eh_log, dead_letters, ehDelivered, notEhVars >>

\* ErrorHandlingProcessor::can_process: the event carries the marker.
ErrorCanProcess(event) == event.failed

\* an event is routed to the processor: a task that will call process() is
\* spawned when can_process accepts it.
ErrorRoute(event) ==
    /\ eh_processor # << >>
    /\ ehDelivered < MaxErrorEvents
    /\ event.id = ehDelivered + 1
    /\ ehDelivered' = ehDelivered + 1
    /\ eh_inbox' = IF ErrorCanProcess(event) THEN Append(eh_inbox, event)
                                            ELSE eh_inbox
    /\ UNCHANGED << eh_processor, eh_log, dead_letters, notEhVars >>

\* the attempts process() reads: retry_attempts as u64, or 0.
RecordedAttempts(event) ==
    IF event.retry_attempts = << >> THEN 0 ELSE event.retry_attempts[1]

\* ErrorHandlingProcessor::process on the next spawned event. Below the
\* limit it sleeps, then updates its own copy of the event, which is
\* dropped at the return; otherwise the dead-letter handler, if any, is
\* given the event and its result is returned.
ErrorProcess(handler_ok) ==
    /\ eh_inbox # << >>
    /\ LET event == Head(eh_inbox)
           attempts == RecordedAttempts(event)
           limit == eh_processor[1].retry_attempts
           branch == IF attempts < limit THEN "retry"
                     ELSE IF eh_processor[1].dead_letter_handler
                       THEN "dead_letter" ELSE "dropped"
       IN  /\ branch # "dead_letter" => handler_ok
           /\ eh_log' = Append(eh_log,
                  [ event |-> event, attempts |-> attempts, branch |-> branch,
                    slept |-> branch = "retry",
                    ok |-> handler_ok ])
           /\ dead_letters' = IF branch = "dead_letter"
                                THEN Append(dead_letters, event)
                                ELSE dead_letters
    /\ eh_inbox' = Tail(eh_inbox)
    /\ UNCHANGED << eh_processor, ehDelivered, notEhVars >>

NextErrorHandling ==
    \/ \E n \in 0..MaxRetryLimit, with_handler \in BOOLEAN :
          NewErrorHandlingProcessor(n, with_handler)
    \/ \E event \in ErrorEvents : ErrorRoute(event)
    \/ \E handler_ok \in BOOLEAN : ErrorProcess(handler_ok)

\* every spawned process() call runs.
SpecErrorHandling ==
    InitIdle /\ [][NextErrorHandling]_vars
             /\ WF_vars(\E handler_ok \in BOOLEAN : ErrorProcess(handler_ok))

(***************************************************************************)
(* The pattern library that evolves (patterns/mod.rs, evolution.rs):       *)
(* add_pattern, apply_pattern in its two steps, evolve_patterns in its     *)
(* steps, and the passing of time.                                         *)
(***************************************************************************)
\* the calls made on the evolving library in one run.
MaxEvoCalls == 5

\* Utc::now() stays below this many half days.
MaxNow == 19

\* the patterns handed to add_pattern: applied 9 or 10 times so far, with
\* confidence_score 0.4, 0.7 or 0.9, never evolved, no metadata.
EvolvingTemplates ==
    { [ id |-> 0, category |-> "Performance",
        context |-> [ problem_indicators |-> << >> ],
        solution |-> [ steps |-> << >> ],
        metrics |-> [ application_count |-> n, success_count |-> 4,
                      failure_count |-> n - 4, average_resolution_time |-> 0,
                      confidence_score |-> score, evolution_count |-> 0 ],
        needs_review |-> FALSE,
        updated_at |-> 0 ] :
        n \in { 9, 10 }, score \in { << 2, 5 >>, << 7, 10 >>, << 9, 10 >> } }

\* PatternLibrary::add_pattern: updated_at is the time of the call.
EvoAddPattern(pattern) ==
    /\ evoCalls < MaxEvoCalls
    /\ Len(patterns) < MaxPatterns
    /\ evoCalls' = evoCalls + 1
    /\ patterns' = Append(patterns, [ pattern EXCEPT !.id = Len(patterns) + 1,
                                                    !.updated_at = lib_now ])
    /\ category_index' = [ category_index EXCEPT
                             ![pattern.category] = Append(@, Len(patterns) + 1) ]
    /\ applications' = [ applications EXCEPT
                           ![Len(patterns) + 1] = pattern.metrics.application_count ]
    /\ UNCHANGED << lib_now, evolve_pc, evolve_snapshot, evolve_at,
                    evolve_results, apply_held, notEvoVars >>

\* time passes.
PassTime(half_days) ==
    /\ lib_now + half_days <= MaxNow
    /\ lib_now' = lib_now + half_days
    /\ UNCHANGED << patterns, category_index, evolve_pc, evolve_snapshot,
                    evolve_at, evolve_results, apply_held, applications,
                    evoCalls, notEvoVars >>

\* chrono Duration::num_days of a difference in half days: whole days.
NumDays(half_days) == half_days \div 2

\* PatternEvolver::should_evolve
ShouldEvolve(pattern, now) ==
    /\ pattern.metrics.application_count >= 10
    /\ FracGreater(<< 9, 10 >>, pattern.metrics.confidence_score)
    /\ NumDays(now - pattern.updated_at) > 7

\* SuccessRateStrategy::evolve: a change (UpdateMetadata needs_review) when
\* confidence_score < 0.5; the other two strategies return None.
SuccessRateChanges(pattern) ==
    IF FracGreater(<< 1, 2 >>, pattern.metrics.confidence_score)
      THEN << "needs_review" >> ELSE << >>

\* PatternEvolver::evolve_pattern: the changes applied, evolution_count and
\* updated_at advanced, should_update when there was a change.
EvolvePattern(pattern, now) ==
    LET changes == SuccessRateChanges(pattern) IN
    [ pattern_id |-> pattern.id,
      evolved_pattern |->
          [ pattern EXCEPT !.needs_review = (@ \/ changes # << >>),
                           !.metrics.evolution_count = @ + 1,
                           !.updated_at = now ],
      should_update |-> changes # << >> ]

\* PatternEvolver::evolve_all on a clone of the map.
EvolveAll(cloned, now) ==
    { EvolvePattern(cloned[p], now) :
        p \in { q \in DOMAIN cloned : ShouldEvolve(cloned[q], now) } }

\* evolve_patterns: the map is cloned under the read lock and evolve_all
\* runs on the clone.
EvolveRead ==
    /\ evolve_pc = "idle"
    /\ evoCalls < MaxEvoCalls
    /\ evoCalls' = evoCalls + 1
    /\ evolve_snapshot' = patterns
    /\ evolve_at' = lib_now
    /\ evolve_results' = { r \in EvolveAll(patterns, lib_now) : r.should_update }
    /\ evolve_pc' = "updating"
    /\ UNCHANGED << patterns, category_index, lib_now, apply_held,
                    applications, notEvoVars >>

\* evolve_patterns: update_pattern stores one evolved pattern under the
\* write lock.
EvolveUpdate ==
    /\ evolve_pc = "updating"
    /\ \E result \in evolve_results :
          /\ patterns' = [ patterns EXCEPT
                             ![result.pattern_id] = result.evolved_pattern ]
          /\ evolve_results' = evolve_results \ { result }
    /\ UNCHANGED << category_index, lib_now, evolve_pc, evolve_snapshot,
                    evolve_at, apply_held, applications, evoCalls, notEvoVars >>

\* evolve_patterns returns.
EvolveReturn ==
    /\ evolve_pc = "updating"
    /\ evolve_results = {}
    /\ evolve_pc' = "idle"
    /\ evolve_snapshot' = << >>
    /\ evolve_at' = 0
    /\ UNCHANGED << patterns, category_index, lib_now, evolve_results,
                    apply_held, applications, evoCalls, notEvoVars >>

\* apply_pattern: get_pattern and applicator.apply, which succeeds for a
\* pattern without steps and takes duration seconds.
EvoApplyBegin(pattern_id, duration) ==
    /\ apply_held = << >>
    /\ evoCalls < MaxEvoCalls
    /\ pattern_id \in DOMAIN patterns
    /\ evoCalls' = evoCalls + 1
    /\ apply_held' = << [ pattern_id |-> pattern_id,
                          success |-> ApplySteps(patterns[pattern_id].solution.steps,
                                                 FALSE) = "Done",
                          duration |-> duration ] >>
    /\ UNCHANGED << patterns, category_index, lib_now, evolve_pc,
                    evolve_snapshot, evolve_at, evolve_results, applications,
                    notEvoVars >>

\* apply_pattern: update_pattern_metrics on the stored pattern under the
\* write lock, and the return.
EvoApplyUpdate ==
    /\ apply_held # << >>
    /\ LET result == apply_held[1] IN
       /\ patterns' = [ patterns EXCEPT
              ![result.pattern_id].metrics =
                  UpdatePatternMetrics(@, result.success, result.duration),
              ![result.pattern_id].updated_at = lib_now ]
       /\ applications' = [ applications EXCEPT ![result.pattern_id] = @ + 1 ]
    /\ apply_held' = << >>
    /\ UNCHANGED << category_index, lib_now, evolve_pc, evolve_snapshot,
                    evolve_at, evolve_results, evoCalls, notEvoVars >>

NextEvolution ==
    \/ \E pattern \in EvolvingTemplates : EvoAddPattern(pattern)
    \/ \E half_days \in { 3, 16 } : PassTime(half_days)
    \/ EvolveRead
    \/ EvolveUpdate
    \/ EvolveReturn
    \/ \E pattern_id \in 1..MaxPatterns, duration \in { 3 } :
          EvoApplyBegin(pattern_id, duration)
    \/ EvoApplyUpdate

SpecEvolution == InitIdle /\ [][NextEvolution]_vars

(***************************************************************************)
(* The task-table lock and the queue-service lock (a2a/src/manager.rs):    *)
(* every acquisition, wait and release of create_task, get_task,           *)
(* update_task_status and the process_queue loops. What a call finds in    *)
(* the table or in Redis is chosen freely, the order of its locks is not.  *)
(***************************************************************************)
\* RwLock::read / RwLock::write is called: the caller joins the waiters.
\* tokio grants the lock in the order of the calls.
AskFor(lock, t, write) ==
    [ lock EXCEPT !.waiters = Append(@, [ thread |-> t, write |-> write ]) ]

\* the first waiter can be given the lock: no writer holds it, and no
\* reader either if the waiter wants to write.
CanGrant(lock, t) ==
    /\ lock.waiters # << >>
    /\ Head(lock.waiters).thread = t
    /\ lock.writer = {}
    /\ Head(lock.waiters).write => lock.readers = {}

\* the first waiter becomes a holder.
Grant(lock) ==
    LET first == Head(lock.waiters) IN
    [ readers |-> IF first.write THEN lock.readers
                  ELSE lock.readers \cup { first.thread },
      writer |-> IF first.write THEN { first.thread } ELSE lock.writer,
      waiters |-> Tail(lock.waiters) ]

\* the guard the process_queue loop would keep if it did not drop it.
KeepGuardOf(lock, t) == lock

\* a guard of t is dropped.
DropGuardOf(lock, t) ==
    [ lock EXCEPT !.readers = @ \ { t }, !.writer = @ \ { t } ]

\* process_queue: drop(queue) after the dequeue returned Some(task).
DropDequeueGuard(lock, t) == DropGuardOf(lock, t)

\* t holds a guard of the lock / waits for the lock.
HoldsGuard(lock, t) == t \in lock.readers \cup lock.writer

WaitsFor(lock, t) == \E k \in DOMAIN lock.waiters : lock.waiters[k].thread = t

GuardGoto(t, to) == guard_pc' = [ guard_pc EXCEPT ![t] = to ]

\* create_task with a registered workflow type: the task is built and
\* self.tasks.write() is called.
CreateTaskAsks(t) ==
    /\ t \in GuardCallers
    /\ guard_pc[t] = "idle"
    /\ tasks_rwlock' = AskFor(tasks_rwlock, t, TRUE)
    /\ GuardGoto(t, "create_wait")
    /\ UNCHANGED << queue_rwlock, notGuardVars >>

\* get_task from outside: self.tasks.read() is called.
GetTaskAsks(t) ==
    /\ t \in GuardCallers
    /\ guard_pc[t] = "idle"
    /\ tasks_rwlock' = AskFor(tasks_rwlock, t, FALSE)
    /\ GuardGoto(t, "get_wait")
    /\ UNCHANGED << queue_rwlock, notGuardVars >>

\* update_task_status from outside: self.tasks.write() is called.
UpdateTaskStatusAsks(t) ==
    /\ t \in GuardCallers
    /\ guard_pc[t] = "idle"
    /\ tasks_rwlock' = AskFor(tasks_rwlock, t, TRUE)
    /\ GuardGoto(t, "status_wait")
    /\ UNCHANGED << queue_rwlock, notGuardVars >>

\* the loop of a consumer calls process_queue: self.queue_service.write()
\* is called.
ProcessQueueAsks(t) ==
    /\ t \in GuardConsumers
    /\ guard_pc[t] = "idle"
    /\ queue_rwlock' = AskFor(queue_rwlock, t, TRUE)
    /\ GuardGoto(t, "dequeue_wait")
    /\ UNCHANGED << tasks_rwlock, notGuardVars >>

\* the pc of a call once its lock is granted.
HoldPc(wait_pc) ==
    CASE wait_pc = "create_wait" -> "create_hold"
      [] wait_pc = "get_wait" -> "get_hold"
      [] wait_pc = "status_wait" -> "status_hold"
      [] wait_pc = "result_wait" -> "result_hold"
      [] wait_pc = "failed_wait" -> "failed_hold"
      [] wait_pc = "next_wait" -> "next_hold"
      [] wait_pc = "enqueue_wait" -> "enqueue_hold"
      [] wait_pc = "dequeue_wait" -> "dequeue_hold"
      [] wait_pc = "requeue_wait" -> "requeue_hold"

\* the task-table lock is granted to its first waiter.
TasksGuardGranted(t) ==
    /\ CanGrant(tasks_rwlock, t)
    /\ tasks_rwlock' = Grant(tasks_rwlock)
    /\ GuardGoto(t, HoldPc(guard_pc[t]))
    /\ UNCHANGED << queue_rwlock, notGuardVars >>

\* the queue-service lock is granted to its first waiter.
QueueGuardGranted(t) ==
    /\ CanGrant(queue_rwlock, t)
    /\ queue_rwlock' = Grant(queue_rwlock)
    /\ GuardGoto(t, HoldPc(guard_pc[t]))
    /\ UNCHANGED << tasks_rwlock, notGuardVars >>

\* create_task: the task is inserted, the guard dropped, and
\* queue_next_agent asks for the task-table lock again.
CreateTaskStores(t) ==
    /\ guard_pc[t] = "create_hold"
    /\ tasks_rwlock' = AskFor(DropGuardOf(tasks_rwlock, t), t, TRUE)
    /\ GuardGoto(t, "next_wait")
    /\ UNCHANGED << queue_rwlock, notGuardVars >>

\* get_task: the task is cloned or not found, the guard dropped at the
\* return. In process_task a found task leads to the agent lookup and
\* update_task_status, an error to the requeue of process_queue.
GetTaskReads(t, found) ==
    /\ guard_pc[t] = "get_hold"
    /\ IF t \in GuardCallers
         THEN /\ tasks_rwlock' = DropGuardOf(tasks_rwlock, t)
              /\ GuardGoto(t, "idle")
              /\ UNCHANGED queue_rwlock
         ELSE IF found
           THEN /\ tasks_rwlock' = AskFor(DropGuardOf(tasks_rwlock, t), t, TRUE)
                /\ GuardGoto(t, "status_wait")
                /\ UNCHANGED queue_rwlock
           ELSE /\ tasks_rwlock' = DropGuardOf(tasks_rwlock, t)
                /\ queue_rwlock' = AskFor(queue_rwlock, t, TRUE)
                /\ GuardGoto(t, "requeue_wait")
    /\ UNCHANGED notGuardVars

\* update_task_status: the status is written or the task not found, the
\* guard dropped at the return. In process_task the agent then executes.
UpdateTaskStatusWrites(t, found) ==
    /\ guard_pc[t] = "status_hold"
    /\ tasks_rwlock' = DropGuardOf(tasks_rwlock, t)
    /\ IF t \in GuardCallers
         THEN /\ GuardGoto(t, "idle")
              /\ UNCHANGED queue_rwlock
         ELSE IF found
           THEN /\ GuardGoto(t, "executing")
                /\ UNCHANGED queue_rwlock
           ELSE /\ queue_rwlock' = AskFor(queue_rwlock, t, TRUE)
                /\ GuardGoto(t, "requeue_wait")
    /\ UNCHANGED notGuardVars

\* process_task: execute_task returns, and the arm of the match asks for
\* the task-table lock.
ExecuteTaskEnds(t, ok) ==
    /\ guard_pc[t] = "executing"
    /\ tasks_rwlock' = AskFor(tasks_rwlock, t, TRUE)
    /\ GuardGoto(t, IF ok THEN "result_wait" ELSE "failed_wait")
    /\ UNCHANGED << queue_rwlock, notGuardVars >>

\* process_task, Ok arm: the artifacts are added, the guard dropped, and
\* queue_next_agent asks for the task-table lock.
ProcessTaskStoresResult(t) ==
    /\ guard_pc[t] = "result_hold"
    /\ tasks_rwlock' = AskFor(DropGuardOf(tasks_rwlock, t), t, TRUE)
    /\ GuardGoto(t, "next_wait")
    /\ UNCHANGED << queue_rwlock, notGuardVars >>

\* process_task, Err arm: the task is marked failed, the guard dropped at
\* the end of the arm, process_task and process_queue return Ok.
ProcessTaskStoresFailure(t) ==
    /\ guard_pc[t] = "failed_hold"
    /\ tasks_rwlock' = DropGuardOf(tasks_rwlock, t)
    /\ GuardGoto(t, "idle")
    /\ UNCHANGED << queue_rwlock, notGuardVars >>

\* queue_next_agent under the task-table guard. "enqueue": there is a next
\* agent, drop(tasks), then self.queue_service.write(); "done": no agent is
\* left, the task is completed; "error": the task or the agent's queue is
\* unknown. The guard is dropped at the return in the last two.
QueueNextAgentAdvances(t, outcome) ==
    /\ guard_pc[t] = "next_hold"
    /\ tasks_rwlock' = DropGuardOf(tasks_rwlock, t)
    /\ IF outcome = "enqueue" \/ (outcome = "error" /\ t \in GuardConsumers)
         THEN /\ queue_rwlock' = AskFor(queue_rwlock, t, TRUE)
              /\ GuardGoto(t, IF outcome = "enqueue" THEN "enqueue_wait"
                              ELSE "requeue_wait")
         ELSE /\ GuardGoto(t, "idle")
              /\ UNCHANGED queue_rwlock
    /\ UNCHANGED notGuardVars

\* queue_next_agent: queue.enqueue returns and the guard is dropped at the
\* return; process_queue requeues if it was an error.
QueueNextAgentEnqueues(t, ok) ==
    /\ guard_pc[t] = "enqueue_hold"
    /\ IF ok \/ t \in GuardCallers
         THEN /\ queue_rwlock' = DropGuardOf(queue_rwlock, t)
              /\ GuardGoto(t, "idle")
         ELSE /\ queue_rwlock' = AskFor(DropGuardOf(queue_rwlock, t), t, TRUE)
              /\ GuardGoto(t, "requeue_wait")
    /\ UNCHANGED << tasks_rwlock, notGuardVars >>

\* process_queue: queue.dequeue returns, after its timeout at the latest.
\* With Some(task) the guard is dropped and process_task calls get_task;
\* with None or an error the guard is dropped at the return.
ProcessQueueDequeues(t, some) ==
    /\ guard_pc[t] = "dequeue_hold"
    /\ IF some
         THEN /\ queue_rwlock' = DropDequeueGuard(queue_rwlock, t)
              /\ tasks_rwlock' = AskFor(tasks_rwlock, t, FALSE)
              /\ GuardGoto(t, "get_wait")
         ELSE /\ queue_rwlock' = DropGuardOf(queue_rwlock, t)
              /\ GuardGoto(t, "idle")
              /\ UNCHANGED tasks_rwlock
    /\ UNCHANGED notGuardVars

\* process_queue: queue.requeue returns, the guard is dropped at the return.
ProcessQueueRequeues(t) ==
    /\ guard_pc[t] = "requeue_hold"
    /\ queue_rwlock' = DropGuardOf(queue_rwlock, t)
    /\ GuardGoto(t, "idle")
    /\ UNCHANGED << tasks_rwlock, notGuardVars >>

\* the steps of a call that has begun: they are taken sooner or later.
GuardStep(t) ==
    \/ TasksGuardGranted(t)
    \/ QueueGuardGranted(t)
    \/ CreateTaskStores(t)
    \/ \E found \in BOOLEAN : GetTaskReads(t, found)
    \/ \E found \in BOOLEAN : UpdateTaskStatusWrites(t, found)
    \/ \E ok \in BOOLEAN : ExecuteTaskEnds(t, ok)
    \/ ProcessTaskStoresResult(t)
    \/ ProcessTaskStoresFailure(t)
    \/ \E outcome \in { "enqueue", "done", "error" } :
          QueueNextAgentAdvances(t, outcome)
    \/ \E ok \in BOOLEAN : QueueNextAgentEnqueues(t, ok)
    \/ \E some \in BOOLEAN : ProcessQueueDequeues(t, some)
    \/ ProcessQueueRequeues(t)

NextGuards ==
    \/ \E t \in GuardCallers : CreateTaskAsks(t)
    \/ \E t \in GuardCallers : GetTaskAsks(t)
    \/ \E t \in GuardCallers : UpdateTaskStatusAsks(t)
    \/ \E t \in GuardConsumers : ProcessQueueAsks(t)
    \/ \E t \in GuardThreads : GuardStep(t)

\* every call that has begun goes on: locks are granted in turn, guards are
\* dropped, execute_task and the Redis commands return.
SpecGuards ==
    /\ InitIdle
    /\ [][NextGuards]_vars
    /\ \A t \in GuardThreads : WF_vars(GuardStep(t))

(***************************************************************************)
(* update_solution_outcome called from several tasks at once               *)
(* (knowledge/mod.rs): the SELECT and the UPDATE are separate statements   *)
(* on the pool, each atomic by itself, with no transaction around them.    *)
(***************************************************************************)
\* the update_solution_outcome calls that have begun and not returned.
OutcomeRunning == { c \in OutcomeCallers : outcome_pc[c] # "idle" }

\* update_solution_outcome is called; the SELECT is about to be sent.
OutcomeBegin(c, solution_id, success) ==
    /\ outcome_pc[c] = "idle"
    /\ Len(kgCalls) + Cardinality(OutcomeRunning) < MaxKgCalls
    /\ outcome_pc' = [ outcome_pc EXCEPT ![c] = "select" ]
    /\ outcome_arg' = [ outcome_arg EXCEPT ![c] = << solution_id, success >> ]
    /\ UNCHANGED << nodes, node_cache, kgCalls, outcome_read, notOutcomeVars >>

\* the call of caller c returns: result is << id >> for Ok, << >> for Err.
OutcomeReturn(c, result) ==
    /\ kgCalls' = Append(kgCalls,
                         Call("update_solution_outcome", outcome_arg[c], result))
    /\ outcome_pc' = [ outcome_pc EXCEPT ![c] = "idle" ]
    /\ outcome_arg' = [ outcome_arg EXCEPT ![c] = << >> ]
    /\ outcome_read' = [ outcome_read EXCEPT ![c] = << >> ]

\* SELECT data ... fetch_one and serde_json::from_value: the solution as
\* stored now; a missing row or a row that is no solution ends the call
\* with Err.
OutcomeSelect(c) ==
    /\ outcome_pc[c] = "select"
    /\ LET at == { i \in DOMAIN nodes : nodes[i].id = outcome_arg[c][1] }
       IN  IF at # {} /\ \A i \in at : nodes[i].node_type = "solution"
             THEN /\ outcome_read' = [ outcome_read EXCEPT ![c] =
                        << nodes[CHOOSE i \in at : TRUE].data >> ]
                  /\ outcome_pc' = [ outcome_pc EXCEPT ![c] = "update" ]
                  /\ UNCHANGED << kgCalls, outcome_arg >>
             ELSE OutcomeReturn(c, << >>)
    /\ UNCHANGED << nodes, node_cache, notOutcomeVars >>

\* the counters and the rate are computed from the solution read, the
\* UPDATE stores the result, the cache entry is replaced, Ok is returned.
OutcomeUpdate(c) ==
    /\ outcome_pc[c] = "update"
    /\ LET solution_id == outcome_arg[c][1]
           old == outcome_read[c][1]
           attempts == old.attempt_count + 1
           successes == old.success_count + (IF outcome_arg[c][2] THEN 1 ELSE 0)
           solution == [ old EXCEPT
                           !.attempt_count = attempts,
                           !.success_count = successes,
                           !.success_rate = Quotient(successes, attempts) ]
       IN  /\ nodes' = [ i \in DOMAIN nodes |->
                           IF nodes[i].id = solution_id
                             THEN [ nodes[i] EXCEPT !.data = solution ]
                             ELSE nodes[i] ]
           /\ node_cache' = [ node_cache EXCEPT ![solution_id] = << solution >> ]
           /\ OutcomeReturn(c, << solution_id >>)
    /\ UNCHANGED notOutcomeVars

\* solutions are added, and update_solution_outcome is called by tasks that
\* run at the same time.
NextOutcomes ==
    \/ \E solution \in Solutions : AddSolution(solution, 1, "Ok")
    \/ \E c \in OutcomeCallers, solution_id \in NodeIds, success \in BOOLEAN :
          OutcomeBegin(c, solution_id, success)
    \/ \E c \in OutcomeCallers : OutcomeSelect(c)
    \/ \E c \in OutcomeCallers : OutcomeUpdate(c)

SpecOutcomes == InitIdle /\ [][NextOutcomes]_vars

(***************************************************************************)
(* register and deregister called from several tasks at once               *)
(* (registry/mod.rs). The write guards of services and of health_tracker   *)
(* are temporaries, dropped at the end of their statement; the guard of    *)
(* capabilities_index is a local, held until the call returns.             *)
(***************************************************************************)
\* the calls that have begun and not returned.
RegistryRunning == { c \in RegistryCallers : register_pc[c] # "idle" }

\* a call begins with the definition it works on.
RegistryBegin(c, definition, to) ==
    /\ register_pc[c] = "idle"
    /\ registryCalls < MaxRegistryCalls
    /\ registryCalls' = registryCalls + 1
    /\ register_pc' = [ register_pc EXCEPT ![c] = to ]
    /\ register_arg' = [ register_arg EXCEPT ![c] = << definition >> ]
    /\ register_overlap' = (register_overlap \/ RegistryRunning # {})

\* a call returns and its capabilities_index guard is dropped.
RegistryReturn(c) ==
    /\ register_pc' = [ register_pc EXCEPT ![c] = "idle" ]
    /\ register_arg' = [ register_arg EXCEPT ![c] = << >> ]
    /\ index_guard' = index_guard \ { c }

\* register: self.services.write().await.insert(service_id, definition)
RegisterStore(c, definition) ==
    /\ RegistryBegin(c, definition, "register_index")
    /\ services' = [ services EXCEPT ![definition.id] = << definition >> ]
    /\ UNCHANGED << capabilities_index, health_tracker, index_guard, notStepVars >>

\* register: the capabilities_index guard is taken and the id pushed under
\* each capability.
RegisterIndex(c) ==
    /\ register_pc[c] = "register_index"
    /\ index_guard = {}
    /\ index_guard' = { c }
    /\ capabilities_index' =
           PushAll(capabilities_index, register_arg[c][1].capabilities,
                   register_arg[c][1].id)
    /\ register_pc' = [ register_pc EXCEPT ![c] = "register_health" ]
    /\ UNCHANGED << services, health_tracker, registryCalls, register_arg,
                    register_overlap, notStepVars >>

\* register: the health entry is inserted, the registration recorded, and
\* the call returns.
RegisterHealth(c) ==
    /\ register_pc[c] = "register_health"
    /\ health_tracker' = [ health_tracker EXCEPT ![register_arg[c][1].id] =
                             << [ status |-> "Healthy", metrics |-> << >> ] >> ]
    /\ RegistryReturn(c)
    /\ UNCHANGED << services, capabilities_index, registryCalls,
                    register_overlap, notStepVars >>

\* deregister: self.services.write().await.remove(&service_id), NotFound
\* for an id that is not there.
DeregisterRemove(c, service_id) ==
    IF services[service_id] # << >>
      THEN /\ RegistryBegin(c, services[service_id][1], "deregister_index")
           /\ services' = [ services EXCEPT ![service_id] = << >> ]
           /\ UNCHANGED << capabilities_index, health_tracker, index_guard,
                           notStepVars >>
      ELSE /\ register_pc[c] = "idle"
           /\ registryCalls < MaxRegistryCalls
           /\ registryCalls' = registryCalls + 1
           /\ UNCHANGED << services, capabilities_index, health_tracker,
                           register_pc, register_arg, index_guard,
                           register_overlap, notStepVars >>

\* deregister: the capabilities_index guard is taken and the id removed
\* from the list of each capability of the removed definition.
DeregisterIndex(c) ==
    /\ register_pc[c] = "deregister_index"
    /\ index_guard = {}
    /\ index_guard' = { c }
    /\ capabilities_index' =
           [ cap \in Capabilities |->
               IF \E k \in DOMAIN register_arg[c][1].capabilities :
                      register_arg[c][1].capabilities[k] = cap
                 THEN RetainOthers(capabilities_index[cap], register_arg[c][1].id)
                 ELSE capabilities_index[cap] ]
    /\ register_pc' = [ register_pc EXCEPT ![c] = "deregister_health" ]
    /\ UNCHANGED << services, health_tracker, registryCalls, register_arg,
                    register_overlap, notStepVars >>

\* deregister: the health entry is removed and the call returns.
DeregisterHealth(c) ==
    /\ register_pc[c] = "deregister_health"
    /\ health_tracker' = [ health_tracker EXCEPT ![register_arg[c][1].id] = << >> ]
    /\ RegistryReturn(c)
    /\ UNCHANGED << services, capabilities_index, registryCalls,
                    register_overlap, notStepVars >>

\* register and deregister called by tasks that run at the same time.
NextRegistrySteps ==
    \/ \E c \in RegistryCallers, definition \in ServiceDefinitions :
          RegisterStore(c, definition)
    \/ \E c \in RegistryCallers : RegisterIndex(c)
    \/ \E c \in RegistryCallers : RegisterHealth(c)
    \/ \E c \in RegistryCallers, service_id \in ServiceIds :
          DeregisterRemove(c, service_id)
    \/ \E c \in RegistryCallers : DeregisterIndex(c)
    \/ \E c \in RegistryCallers : DeregisterHealth(c)

SpecRegistrySteps == InitIdle /\ [][NextRegistrySteps]_vars

(***************************************************************************)
(* Properties.                                                             *)
(***************************************************************************)
IsPrefix(s, t) ==
    /\ Len(s) <= Len(t)
    /\ \A i \in 1..Len(s) : s[i] = t[i]

NoDuplicates(s) ==
    \A i, j \in DOMAIN s : i # j => s[i] # s[j]

\* position of an agent type in a workflow (1-based).
PositionOf(agent, agentSeq) ==
    CHOOSE i \in DOMAIN agentSeq : agentSeq[i] = agent

RECURSIVE SetSum(_, _)
SetSum(f, S) ==
    IF S = {} THEN 0
    ELSE LET x == CHOOSE y \in S : TRUE IN f[x] + SetSum(f, S \ {x})

\* entries of task t waiting in queue q.
Waiting(t, q) ==
    Cardinality({ i \in DOMAIN redis[q] : redis[q][i].task_id = t })

\* whether the consumer of queue q holds an entry of task t.
Holds(t, q) == held[q] # << >> /\ held[q][1].task_id = t

\* entries of task t waiting in the primary queues plus entries of t in the
\* hands of a consumer (dequeued, executing, or about to be requeued).
InFlight(t) ==
    SetSum([ q \in Queues |-> Waiting(t, q) + (IF Holds(t, q) THEN 1 ELSE 0) ],
           Queues)

\* C1: for every task, the agents whose execute_task was invoked form a
\* prefix of workflow.agents, in order, and no agent was invoked twice.
C1_ExecutedIsPrefix ==
    \A t \in DOMAIN tasks :
        /\ IsPrefix(executed[t], tasks[t].workflow.agents)
        /\ NoDuplicates(executed[t])

\* C2: once a task is completed, failed or cancelled, no step changes its
\* status, its artifacts or its messages.
C2_TerminalIsFrozen ==
    [][ \A t \in DOMAIN tasks :
          tasks[t].status \in TerminalStatus =>
              /\ tasks'[t].status = tasks[t].status
              /\ tasks'[t].artifacts = tasks[t].artifacts
              /\ tasks'[t].messages = tasks[t].messages ]_vars

\* C3: for every task, the entries waiting in the primary queues plus the
\* entries a consumer holds (so also the execute_task calls running) are at
\* most one.
C3_OneInFlight ==
    \A t \in DOMAIN tasks : InFlight(t) <= 1

\* a second agent of a workflow is executing, and is the task's only entry.
C3_Witness ==
    \E t \in DOMAIN tasks, q \in Queues :
        /\ pc[q] = "executing"
        /\ Holds(t, q)
        /\ tasks[t].workflow.current_step >= 2
        /\ InFlight(t) = 1

\* C4: 0 <= current_step <= total_steps, and current_agent is
\* agents[current_step - 1] (0-based) whenever current_step > 0.
C4_StepInvariant ==
    \A t \in DOMAIN tasks :
        LET wf == tasks[t].workflow IN
        /\ 0 <= wf.current_step
        /\ wf.current_step <= wf.total_steps
        /\ (0 < wf.current_step /\ wf.current_step <= wf.total_steps)
              => wf.current_agent = wf.agents[wf.current_step]

\* next_agent has advanced a task to the last of several steps.
C4_Witness ==
    \E t \in DOMAIN tasks :
        LET wf == tasks[t].workflow IN
        /\ wf.current_step >= 2
        /\ wf.current_step = wf.total_steps
        /\ wf.current_agent = wf.agents[wf.current_step]

\* the state a task of the happy path ends in.
HappyEnd(t) ==
    /\ tasks[t].status = "completed"
    /\ tasks[t].workflow.current_step = tasks[t].workflow.total_steps
    /\ tasks[t].artifacts = returned[t]
    /\ executed[t] = tasks[t].workflow.agents
    /\ \A i \in DOMAIN tasks[t].artifacts : \A j \in DOMAIN tasks[t].artifacts :
          i < j => PositionOf(tasks[t].artifacts[i].agent, tasks[t].workflow.agents)
                     <= PositionOf(tasks[t].artifacts[j].agent, tasks[t].workflow.agents)

\* C5: with all agents registered and succeeding and Redis reliable, every
\* created task starts pending, changes status only pending -> running ->
\* completed, is eventually completed, and once completed has
\* current_step = total_steps and exactly the returned artifacts in
\* workflow order.
C5_HappyPath ==
    /\ [][ \A t \in DOMAIN tasks' :
             IF t \in DOMAIN tasks
               THEN tasks'[t].status # tasks[t].status =>
                      << tasks[t].status, tasks'[t].status >> \in
                          { << "pending", "running" >>, << "running", "completed" >> }
               ELSE tasks'[t].status = "pending" ]_vars
    /\ \A t \in 1..MaxTasks : (t \in DOMAIN tasks) ~> (t \in DOMAIN tasks /\ HappyEnd(t))
    /\ [](\A t \in DOMAIN tasks : tasks[t].status = "completed" => HappyEnd(t))

\* a task of the five-agent workflow has completed with its artifacts.
C5_Witness ==
    \E t \in DOMAIN tasks :
        /\ HappyEnd(t)
        /\ tasks[t].workflow.total_steps = 5
        /\ Len(tasks[t].artifacts) >= 5

\* the agent named by the error message of a task, if it has one.
HasError(t) ==
    \E i \in DOMAIN tasks[t].messages : tasks[t].messages[i].message_type = "error"

\* C6: after an agent's execute_task returned an error the task is failed,
\* the error message is its last message, no artifact of the failing step
\* was appended, current_step is the position of the failing agent, and no
\* entry of the task waits in a queue or is held by a consumer.
C6_AgentFailure ==
    \A t \in DOMAIN tasks :
        HasError(t) =>
            LET last == tasks[t].messages[Len(tasks[t].messages)] IN
            /\ tasks[t].status = "failed"
            /\ last.message_type = "error"
            /\ tasks[t].artifacts = returned[t]
            /\ tasks[t].workflow.current_step =
                   PositionOf(last.about, tasks[t].workflow.agents)
            /\ InFlight(t) = 0

\* what C7 says of one requeue call of queue q.
RequeuePost(q) ==
    LET t == held[q][1]
        attempts == t.attempts + 1
    IN  IF attempts > 3
          THEN /\ \E i \in DOMAIN redis'[DeadName(q)] :
                     /\ redis'[DeadName(q)][i].task_id = t.task_id
                     /\ redis'[DeadName(q)][i].attempts = attempts
               /\ \A k \in RedisKeys \ {DeadName(q)} :
                     t.task_id \notin TaskIdsIn(redis'[k])
          ELSE \E i \in DOMAIN redis'[q] :
                   LET e == redis'[q][i] IN
                   /\ e.task_id = t.task_id
                   /\ e.attempts = attempts
                   \* e.priority = max(t.priority - 10, INT_MIN)
                   /\ e.priority >= IntMin
                   /\ e.priority + 10 >= t.priority
                   /\ (e.priority = IntMin \/ e.priority + 10 = t.priority)

\* C7: requeue records attempts + 1; above 3 attempts the task is in the
\* dead letter queue and nowhere else, otherwise in the primary queue with
\* priority max(p - 10, INT_MIN); a task enqueued with 0 attempts that is in
\* the dead letter queue has attempts = 4 and is absent from the queue.
C7_Requeue ==
    /\ [][ (\E oc \in BOOLEAN : QueueRequeue(IMPORT, oc)) => RequeuePost(IMPORT) ]_vars
    /\ [](\A i \in DOMAIN redis[DeadName(IMPORT)] :
             /\ redis[DeadName(IMPORT)][i].attempts = 4
             /\ redis[DeadName(IMPORT)][i].task_id \notin TaskIdsIn(redis[IMPORT]))

EarliestOfHighest(zset) ==
    CHOOSE i \in DOMAIN zset :
        /\ \A j \in DOMAIN zset : zset[j].priority <= zset[i].priority
        /\ \A j \in 1..(i - 1) : zset[j].priority < zset[i].priority

\* C9: dequeue returns the entry of highest priority and, among entries of
\* equal priority, the one enqueued earliest.
C9_DequeueOrder ==
    [][ \A q \in Queues :
          ProcessQueueDequeue(q) =>
              held'[q] = << redis[q][EarliestOfHighest(redis[q])] >> ]_vars

\* the ids an index lists under a key.
Listed(index, key) ==
    IF key \in DOMAIN index
      THEN { index[key][i] : i \in DOMAIN index[key] }
      ELSE {}

\* the events of the ring.
Ring == { events[i] : i \in DOMAIN events }

\* C10: every event of the ring is listed under its type and its source,
\* and under a correlation / causation id exactly when it carries it; and
\* every id an index lists is the id of an event of the ring.
C10_IndexesConsistent ==
    /\ \A e \in Ring :
          /\ e.id \in Listed(indexes.by_type, e.event_type)
          /\ e.id \in Listed(indexes.by_source, e.source)
          /\ \A c \in EventIds :
                (e.correlation_id = << c >>) =>
                    e.id \in Listed(indexes.by_correlation, c)
          /\ \A c \in EventIds :
                (e.causation_id = << c >>) =>
                    e.id \in Listed(indexes.by_causation, c)
    /\ \A k \in DOMAIN indexes.by_type : \A id \in Listed(indexes.by_type, k) :
          \E e \in Ring : e.id = id /\ e.event_type = k
    /\ \A k \in DOMAIN indexes.by_source : \A id \in Listed(indexes.by_source, k) :
          \E e \in Ring : e.id = id /\ e.source = k
    /\ \A k \in DOMAIN indexes.by_correlation :
          \A id \in Listed(indexes.by_correlation, k) :
              \E e \in Ring : e.id = id /\ e.correlation_id = << k >>
    /\ \A k \in DOMAIN indexes.by_causation :
          \A id \in Listed(indexes.by_causation, k) :
              \E e \in Ring : e.id = id /\ e.causation_id = << k >>

\* the last n elements of a sequence (all of it when it is shorter).
LastN(s, n) ==
    SubSeq(s, Len(s) - (IF n < Len(s) THEN n ELSE Len(s)) + 1, Len(s))

\* C11: after every store call the ring holds at most max_events events and
\* they are the most recently stored ones, in the order they were stored
\* (so what was evicted is what was stored earliest).
C11_RingIsMostRecent ==
    /\ Len(events) <= capacity
    /\ events = LastN(storeLog, capacity)

\* more events were stored than the ring holds and the ring is full.
C11_Witness ==
    /\ capacity >= 2
    /\ Len(storeLog) > capacity
    /\ Len(events) = capacity
    /\ events[1] # events[2]

\* whether the four indices list exactly the events of a ring.
IndexesMatch(ring, ix) ==
    LET ringSet == { ring[i] : i \in DOMAIN ring } IN
    /\ \A e \in ringSet :
          /\ e.id \in Listed(ix.by_type, e.event_type)
          /\ e.id \in Listed(ix.by_source, e.source)
          /\ e.correlation_id # << >> =>
                e.id \in Listed(ix.by_correlation, e.correlation_id[1])
          /\ e.causation_id # << >> =>
                e.id \in Listed(ix.by_causation, e.causation_id[1])
    /\ \A k \in DOMAIN ix.by_type : \A id \in Listed(ix.by_type, k) :
          \E e \in ringSet : e.id = id /\ e.event_type = k
    /\ \A k \in DOMAIN ix.by_source : \A id \in Listed(ix.by_source, k) :
          \E e \in ringSet : e.id = id /\ e.source = k
    /\ \A k \in DOMAIN ix.by_correlation :
          \A id \in Listed(ix.by_correlation, k) :
              \E e \in ringSet : e.id = id /\ e.correlation_id = << k >>
    /\ \A k \in DOMAIN ix.by_causation :
          \A id \in Listed(ix.by_causation, k) :
              \E e \in ringSet : e.id = id /\ e.causation_id = << k >>

\* C12: importing the result of export_json into an empty store of capacity
\* C leaves the last min(n, C) of the n exported events in the ring, in the
\* same order, and the indices consistent with that ring.
C12_ExportImportRoundTrip ==
    [][ (RingImport /\ events = << >>) =>
            /\ events' = LastN(exported[1].ring, capacity)
            /\ IndexesMatch(events', indexes') ]_vars

\* C13: query with no filter and limit L returns the min(L, ring length)
\* most recently stored events, newest first.
C13_QueryNewestFirst ==
    [][ \A l \in 0..MaxLimit :
          RingQuery(<< >>, l) =>
              queried'[1].result =
                  Reverse(LastN(storeLog, IF l < Len(events) THEN l ELSE Len(events))) ]_vars

\* an unfiltered query returned two different events, the newest first.
C13_Witness ==
    /\ queried # << >>
    /\ queried[1].filter = << >>
    /\ Len(queried[1].result) = 2
    /\ queried[1].result[1] # queried[1].result[2]
    /\ Len(storeLog) > 2
    /\ queried[1].result[1] = storeLog[Len(storeLog)]

\* the positions of the routes whose rule matches the event.
MatchingRoutes(event) ==
    { i \in DOMAIN routes : MatchesRule(routes[i].rule, event) }

\* the route that holds the handler h.
RouteOf(h) == routes[CHOOSE i \in DOMAIN routes : routes[i].handler = h]

\* C14: route(event) invokes the handler of every matching route (each once,
\* when route returns Ok), in descending priority and, among equal
\* priorities, in the order the routes were added; the default handler is
\* invoked exactly when no route matches and a default handler is set.
C14_RouteOrder ==
    [][ \A event \in RouterEvents : Route(event) =>
          LET r == routed'[1]
              matching == { routes[i].handler : i \in MatchingRoutes(event) }
          IN  /\ { r.invoked[k] : k \in DOMAIN r.invoked } \subseteq matching
              /\ r.result = "Ok" =>
                    /\ { r.invoked[k] : k \in DOMAIN r.invoked } = matching
                    /\ Len(r.invoked) = Cardinality(matching)
              /\ \A j, k \in DOMAIN r.invoked : j < k =>
                    \/ RouteOf(r.invoked[j]).rule.priority
                           > RouteOf(r.invoked[k]).rule.priority
                    \/ /\ RouteOf(r.invoked[j]).rule.priority
                             = RouteOf(r.invoked[k]).rule.priority
                       /\ r.invoked[j] < r.invoked[k]
              /\ r.default_invoked <=>
                    (matching = {} /\ default_handler # << >>) ]_vars

\* scenario S7 with the lower priority added first, and a tie: three handlers
\* invoked, priority 100 before 50, the two of one priority in adding order.
C14_Witness ==
    /\ routed # << >>
    /\ routed[1].result = "Ok"
    /\ Len(routed[1].invoked) = 3
    /\ \A k \in 1..3 : \E i \in DOMAIN routes : routes[i].handler = routed[1].invoked[k]
    /\ RouteOf(routed[1].invoked[1]).rule.priority = 100
    /\ RouteOf(routed[1].invoked[2]).rule.priority = 50
    /\ RouteOf(routed[1].invoked[3]).rule.priority = 50
    /\ routed[1].invoked[1] > routed[1].invoked[2]
    /\ routed[1].invoked[2] < routed[1].invoked[3]

\* C15: when a handler invoked by route(event) fails, route returns Err at
\* once: the failing handler is the last one invoked, so no matching route
\* behind it and no default handler is invoked for the event.
C15_FirstErrorStops ==
    [][ \A event \in RouterEvents : Route(event) =>
          LET r == routed'[1]
              failing == { i \in MatchingRoutes(event) : routes[i].fails }
          IN  /\ failing # {} =>
                    LET first == CHOOSE i \in failing : \A j \in failing : i <= j
                    IN  /\ r.result = "Err"
                        /\ ~r.default_invoked
                        /\ r.invoked[Len(r.invoked)] = routes[first].handler
                        /\ { r.invoked[k] : k \in DOMAIN r.invoked }
                             = { routes[i].handler :
                                   i \in { m \in MatchingRoutes(event) : m <= first } }
              /\ (r.default_invoked /\ default_handler[1].fails) =>
                    r.result = "Err"
              /\ r.result = "Err" =>
                    \/ failing # {}
                    \/ r.default_invoked /\ default_handler[1].fails ]_vars

\* a failing handler of priority 100 stopped the call: a matching route of
\* priority 50 and the default handler were left out.
C15_Witness ==
    /\ routed # << >>
    /\ routed[1].result = "Err"
    /\ Len(routed[1].invoked) = 1
    /\ default_handler # << >>
    /\ Len(routes) >= 2
    /\ routes[1].handler = routed[1].invoked[1]
    /\ routes[1].fails
    /\ routes[1].rule.priority = 100
    /\ routes[2].rule.priority = 50
    /\ MatchesRule(routes[2].rule, routed[1].event)
    /\ ~routed[1].default_invoked

\* the publish calls that returned Ok.
PublishedOk(k) == k <= Len(published) /\ published[k].result = "Ok"

C17_SubscriberReceives ==
    \A n \in SubNames, k \in 1..MaxPublish :
        (/\ PublishedOk(k)
         /\ n \in published[k].subscribed
         /\ LET filter == subscriptions[n][1].filter
            IN  filter # << >> => FilterMatches(filter[1], published[k].event))
           ~> (handled[n, k] >= 1)

\* the stream the claim assigns to an event type: by the family of the type.
FamilyStream(event_type) ==
    CASE event_type \in ServiceTypes -> "events:service"
      [] event_type \in TaskTypes -> "events:task"
      [] event_type \in LearningTypes -> "events:learning"
      [] event_type \in CollaborationTypes -> "events:collaboration"
      [] OTHER -> "events:system"

\* C18: every entry of a stream carries an event whose type family is the
\* stream's: service types on events:service, task types on events:task,
\* learning types on events:learning, collaboration types on
\* events:collaboration, all other types on events:system.
C18_StreamByFamily ==
    \A s \in StreamKeys : \A i \in DOMAIN streams[s] :
        FamilyStream(streams[s][i].event_type) = s

\* the problem nodes of the table.
ProblemNodes == { i \in DOMAIN nodes : nodes[i].node_type = "problem" }

\* C19: when add_problem is called twice in sequence, both calls returning
\* Ok, with problems of the same category and error_patterns, the second
\* call returns the id of the first, the node has occurrence_count = 2 and
\* last_seen of the second call; and no two problem nodes ever have the same
\* category and error_patterns, that is, the same fingerprint.
C19_AddProblemTwice ==
    /\ [][ \A problem \in Problems, embedded \in BOOLEAN :
             (/\ AddProblem(problem, embedded)
              /\ kgCalls # << >>
              /\ kgCalls[Len(kgCalls)].op = "add_problem"
              /\ kgCalls[Len(kgCalls)].result # << >>
              /\ kgCalls'[Len(kgCalls')].result # << >>
              /\ GenerateFingerprint(kgCalls[Len(kgCalls)].arg)
                     = GenerateFingerprint(problem)
              /\ Len(kgCalls) = 1) =>
                LET first == kgCalls[Len(kgCalls)]
                    second == kgCalls'[Len(kgCalls')]
                IN  /\ second.result = first.result
                    /\ Len(nodes') = 1
                    /\ nodes'[1].id = first.result[1]
                    /\ nodes'[1].data.occurrence_count = 2
                    /\ nodes'[1].data.last_seen = second.at ]_vars
    /\ [](\A i, j \in ProblemNodes :
             GenerateFingerprint(nodes[i].data) = GenerateFingerprint(nodes[j].data)
                 => i = j)

\* C20: a call of update_solution_outcome that returns Ok leaves the stored
\* solution with attempt_count one higher, success_count one higher exactly
\* when success is true, and success_rate = success_count /
\* max(attempt_count, 1); no step of another operation changes the
\* success_rate of a stored solution.
C20_SuccessRate ==
    [][ /\ \A solution_id \in NodeIds, success \in BOOLEAN :
             (/\ UpdateSolutionOutcome(solution_id, success)
              /\ kgCalls'[Len(kgCalls')].result # << >>) =>
                \E i \in DOMAIN nodes :
                   /\ nodes[i].id = solution_id
                   /\ nodes'[i].data.attempt_count = nodes[i].data.attempt_count + 1
                   /\ nodes'[i].data.success_count
                         = nodes[i].data.success_count + (IF success THEN 1 ELSE 0)
                   /\ LET data == nodes'[i].data
                          attempts == IF data.attempt_count > 1
                                        THEN data.attempt_count ELSE 1
                      IN  /\ data.success_rate[2] # 0
                          /\ data.success_rate[1] * attempts
                               = data.success_count * data.success_rate[2]
        /\ \A i \in DOMAIN nodes :
             (/\ nodes[i].node_type = "solution"
              /\ nodes'[i].data.success_rate # nodes[i].data.success_rate) =>
                \E success \in BOOLEAN : UpdateSolutionOutcome(nodes[i].id, success) ]_vars

\* a solution stored with one attempt and no success, updated twice with
\* success: two successes in three attempts.
C20_Witness ==
    /\ Len(kgCalls) = 3
    /\ kgCalls[3].op = "update_solution_outcome"
    /\ kgCalls[3].result # << >>
    /\ kgCalls[3].arg[2]
    /\ kgCalls[1].op = "add_solution"
    /\ nodes[1].node_type = "solution"
    /\ nodes[1].data.attempt_count = 3
    /\ nodes[1].data.success_count = 2
    /\ nodes[1].data.success_rate = << 2, 3 >>

RECURSIVE SubsetsOfSize(_, _)
SubsetsOfSize(S, k) ==
    IF k = 0 THEN { {} }
    ELSE IF S = {} THEN {}
    ELSE LET x == CHOOSE x \in S : TRUE
         IN  SubsetsOfSize(S \ { x }, k)
                 \cup { T \cup { x } : T \in SubsetsOfSize(S \ { x }, k - 1) }

ProblemRows == { i \in DOMAIN nodes : nodes[i].node_type = "problem" }

\* the sets of problem rows that are "the 10 nearest to the query": all of
\* them when there are at most 10, otherwise 10 rows none of which is less
\* similar to the query than a row left out.
NearestSets(query) ==
    LET k == IF Cardinality(ProblemRows) < NearestLimit
             THEN Cardinality(ProblemRows) ELSE NearestLimit
    IN  { N \in SubsetsOfSize(ProblemRows, k) :
            \A i \in N, j \in ProblemRows \ N :
                Similarity(query, nodes[i].data.description)
                    >= Similarity(query, nodes[j].data.description) }

\* the solves edges that lead from a stored node to one of the problems N.
SolvesEdgesInto(N) ==
    { k \in DOMAIN edges :
        /\ edges[k].relationship = "solves"
        /\ \E i \in N : nodes[i].id = edges[k].to_node
        /\ \E i \in DOMAIN nodes : nodes[i].id = edges[k].from_node }

\* candidate c is the one of edge k: the solution the edge starts at, the
\* problem it ends at, scored similarity * weight.
CandidateOfEdge(found, c, k) ==
    /\ c.solution_id = edges[k].from_node
    /\ c.solution = NodeOf(edges[k].from_node).data
    /\ c.similar_problem_id = edges[k].to_node
    /\ c.confidence =
         Similarity(found.query, NodeOf(edges[k].to_node).data.description)
             * edges[k].weight

FindSolutionsReturned ==
    /\ kgCalls' # kgCalls
    /\ kgCalls'[Len(kgCalls')].op = "find_solutions"
    /\ solutionsFound'[1].ok

FoundAsClaimed(found) ==
    /\ \E N \in NearestSets(found.query) :
          \E f \in [ DOMAIN found.candidates -> SolvesEdgesInto(N) ] :
              /\ \A k \in SolvesEdgesInto(N) :
                     Cardinality({ c \in DOMAIN found.candidates : f[c] = k }) = 1
              /\ \A c \in DOMAIN found.candidates :
                     CandidateOfEdge(found, found.candidates[c], f[c])
    /\ \A c \in 1..(Len(found.candidates) - 1) :
          found.candidates[c].confidence >= found.candidates[c + 1].confidence

\* C21: every result find_solutions returns holds exactly one candidate for
\* each solves edge into one of the 10 problems nearest to the query, scored
\* problem similarity * edge weight, in descending order of score; and a
\* solution add_solution attached to a problem among the nearest is in it.
C21_FindSolutions ==
    [][FindSolutionsReturned => FoundAsClaimed(solutionsFound'[1])]_vars

\* scenario S8: similarities 0.9 (problem 1) and 0.5 (problem 2), a solution
\* attached to each with weight 1.0, and the result is the solution of
\* problem 1 before the one of problem 2 with scores 0.9 and 0.5.
C21_Witness ==
    /\ Len(nodes) = 4
    /\ Len(kgCalls) = 3
    /\ kgCalls[1].op = "add_solution" /\ kgCalls[1].result # << >>
    /\ kgCalls[2].op = "add_solution" /\ kgCalls[2].result # << >>
    /\ kgCalls[3].op = "find_solutions"
    /\ edges = << Edge(nodes[3].id, 2, "solves", 1000),
                  Edge(nodes[4].id, 1, "solves", 1000) >>
    /\ solutionsFound # << >>
    /\ solutionsFound[1].ok
    /\ solutionsFound[1].query = "memory issues"
    /\ [ c \in DOMAIN solutionsFound[1].candidates |->
           << solutionsFound[1].candidates[c].solution_id,
              solutionsFound[1].candidates[c].confidence >> ]
         = << << nodes[4].id, 900000 >>, << nodes[3].id, 500000 >> >>

\* with one problem more than find_solutions reads, the solution of the
\* problem farthest from the query is not returned.
C21_WitnessLimit ==
    /\ Len(nodes) = NearestLimit + 2
    /\ solutionsFound # << >>
    /\ solutionsFound[1].ok
    /\ solutionsFound[1].query = "memory issues"
    /\ kgCalls[Len(kgCalls)].op = "find_solutions"
    /\ \E k \in DOMAIN edges : edges[k] = Edge(nodes[Len(nodes)].id, 1, "solves", 1000)
    /\ solutionsFound[1].candidates = << >>

HealthRank(status) ==
    CASE status = "Healthy" -> 0 [] status = "Degraded" -> 1 [] OTHER -> 2

\* healthy before degraded before unhealthy, healthy ones by load.
HealthOrdered(results) ==
    \A i, j \in DOMAIN results :
        i < j =>
            /\ HealthRank(results[i].health.status) <= HealthRank(results[j].health.status)
            /\ (results[i].health.status = "Healthy" /\ results[j].health.status = "Healthy"
                    => Load(results[i]) <= Load(results[j]))

\* C22: in every result of find_by_capability all healthy services come
\* before all degraded ones, which come before all unhealthy ones, and the
\* healthy services are in non-decreasing order of metrics["load"].
C22_HealthOrder ==
    servicesFound # << >> => HealthOrdered(servicesFound[1].results)

\* what find_by_capability does keep: healthy services first, by load.
HealthyFirstByLoad ==
    servicesFound # << >> =>
        \A i, j \in DOMAIN servicesFound[1].results :
            LET a == servicesFound[1].results[i]
                b == servicesFound[1].results[j]
            IN  i < j =>
                  /\ (b.health.status = "Healthy" => a.health.status = "Healthy")
                  /\ (a.health.status = "Healthy" /\ b.health.status = "Healthy"
                          => Load(a) <= Load(b))

\* the number of times id is listed under capability c.
ListedUnder(c, id) ==
    Cardinality({ k \in DOMAIN capabilities_index[c] : capabilities_index[c][k] = id })

Offers(id, c) ==
    /\ services[id] # << >>
    /\ \E k \in DOMAIN services[id][1].capabilities : services[id][1].capabilities[k] = c

\* C23: after any sequence of register and deregister calls the capability
\* index is what the services map implies: an id is listed under c exactly
\* when the service is registered and its current definition offers c, and
\* then once, so that find_by_capability(c) returns each such service once.
C23_IndexMatchesServices ==
    \A c \in Capabilities, id \in ServiceIds :
        /\ ListedUnder(c, id) = (IF Offers(id, c) THEN 1 ELSE 0)
        /\ Cardinality({ k \in DOMAIN FindResults(c) :
                           FindResults(c)[k].definition.id = id })
             = (IF Offers(id, c) THEN 1 ELSE 0)

\* the index after first registrations and deregistrations only.
IndexMatchesWithoutReRegister ==
    (\A c \in Capabilities, id \in ServiceIds : ListedUnder(c, id) <= 1) =>
        \A c \in Capabilities, id \in ServiceIds :
            Offers(id, c) => ListedUnder(c, id) = 1

\* the confidence the claim names: the maximum over the three matchers.
DetectedConfidence(pattern, context) ==
    MaxConfidence(<< 0, 1 >>, MatcherResults(pattern, context))

DetectedAsClaimed(found) ==
    /\ \A p \in DOMAIN patterns :
          Cardinality({ r \in DOMAIN found.results : found.results[r].pattern_id = p })
            = (IF FracGreater(DetectedConfidence(patterns[p], found.context), << 1, 2 >>)
                 THEN 1 ELSE 0)
    /\ \A r \in DOMAIN found.results :
          LET result == found.results[r]
              pattern == patterns[result.pattern_id]
              confidence == DetectedConfidence(pattern, found.context)
              score == pattern.metrics.confidence_score
          IN  /\ result.pattern_id \in DOMAIN patterns
              /\ result.confidence = confidence
              /\ result.suggested_priority =
                   (IF 10 * confidence[1] * score[1] > 8 * confidence[2] * score[2]
                      THEN "High"
                    ELSE IF 10 * confidence[1] * score[1] > 5 * confidence[2] * score[2]
                      THEN "Medium"
                    ELSE "Low")
    /\ \A r \in 1..(Len(found.results) - 1) :
          ~FracGreater(found.results[r + 1].confidence, found.results[r].confidence)

\* C24: detect returns exactly the patterns whose confidence, the maximum
\* over the metric, log and error matchers, is greater than 0.5, sorted by
\* confidence descending, each tagged High if confidence * confidence_score
\* > 0.8, Medium if it is > 0.5, and Low otherwise.
C24_DetectResults ==
    [][detected' # detected => DetectedAsClaimed(detected'[1])]_vars

\* the pattern with the single indicator response_time > 3000 and
\* confidence_score 1.0 is detected with confidence 1.0 and High for
\* response_time = 4000.
C24_Witness ==
    /\ detected # << >>
    /\ detected[1].context.metrics["response_time"] = << 4000 >>
    /\ \E r \in DOMAIN detected[1].results :
          /\ detected[1].results[r].pattern_id \in DOMAIN patterns
          /\ patterns[detected[1].results[r].pattern_id].context.problem_indicators
               = << SlowResponse >>
          /\ patterns[detected[1].results[r].pattern_id].metrics.confidence_score
               = << 1, 1 >>
          /\ detected[1].results[r].confidence = << 1, 1 >>
          /\ detected[1].results[r].suggested_priority = "High"

\* the same pattern is not detected for response_time = 2000.
C24_WitnessBelow ==
    /\ detected # << >>
    /\ detected[1].call = libraryCalls
    /\ detected[1].context.metrics["response_time"] = << 2000 >>
    /\ \E p \in DOMAIN patterns :
          /\ patterns[p].context.problem_indicators = << SlowResponse >>
          /\ patterns[p].metrics.confidence_score = << 1, 1 >>
    /\ detected[1].results = << >>

\* two patterns of different confidence, detected in the other order.
C24_WitnessSorted ==
    /\ detected # << >>
    /\ Len(detected[1].results) = 2
    /\ detected[1].results[1].pattern_id = 2
    /\ FracGreater(detected[1].results[1].confidence, detected[1].results[2].confidence)
    /\ detected[1].results[2].suggested_priority = "Medium"

AppliedAsClaimed ==
    LET before == patterns[applied'[1].pattern_id].metrics
        after == patterns'[applied'[1].pattern_id].metrics
    IN  /\ after.application_count = before.application_count + 1
        /\ \/ /\ after.success_count = before.success_count + 1
              /\ after.failure_count = before.failure_count
           \/ /\ after.success_count = before.success_count
              /\ after.failure_count = before.failure_count + 1
        /\ after.confidence_score[2] # 0
        /\ after.confidence_score[1] * after.application_count
             = after.success_count * after.confidence_score[2]
        /\ \A p \in DOMAIN patterns :
              p # applied'[1].pattern_id => patterns'[p] = patterns[p]

\* C25: after every application of a pattern through apply_pattern its
\* application_count has grown by 1, exactly one of success_count and
\* failure_count has grown by 1, and confidence_score = success_count /
\* application_count; success_count + failure_count = application_count
\* always holds for patterns added with zero counters.
C25_ApplicationCounters ==
    /\ [][applied' # applied /\ applied'[1].ok => AppliedAsClaimed]_vars
    /\ [](\A p \in DOMAIN patterns :
             patterns[p].metrics.success_count + patterns[p].metrics.failure_count
               = patterns[p].metrics.application_count)

\* a pattern applied twice.
C25_Witness ==
    /\ applied # << >>
    /\ applied[1].ok
    /\ applied[1].call = libraryCalls
    /\ patterns[applied[1].pattern_id].metrics.application_count = 2
    /\ patterns[applied[1].pattern_id].metrics.success_count = 2
    /\ patterns[applied[1].pattern_id].metrics.confidence_score = << 2, 2 >>

\* a rule holds on the event's data fields: its comparison is true of the
\* field of that name in the payload, or of the field at that path in the
\* event.
HoldsOnDataFields(rule, data) ==
    \/ RuleHolds(rule, GetPayloadFieldValue(data, rule.field))
    \/ RuleHolds(rule, GetFieldValue(data, rule.field))

\* the number of rules of the pattern that hold, by RuleTest.
RulesHolding(pattern, data, RuleTest(_, _)) ==
    Cardinality({ k \in DOMAIN pattern.matching_rules :
                    RuleTest(pattern.matching_rules[k], data) })

\* the matches are the registered patterns of which at least 80% of the
\* rules hold, each with confidence = fraction * pattern.confidence.
MatchesAre(found, RuleTest(_, _)) ==
    LET data == EventToValue(found.event)
        Expected(pattern) ==
            /\ pattern.matching_rules # << >>
            /\ 10 * RulesHolding(pattern, data, RuleTest) >= 8 * Len(pattern.matching_rules)
    IN  /\ \A pattern \in MatcherPatternTemplates :
              Cardinality({ m \in DOMAIN found.matches : found.matches[m].pattern = pattern })
                = Cardinality({ k \in 1..found.registered :
                                  matcherPatterns[k] = pattern /\ Expected(pattern) })
        /\ \A m \in DOMAIN found.matches :
              found.matches[m].confidence
                = << RulesHolding(found.matches[m].pattern, data, RuleTest)
                         * found.matches[m].pattern.confidence,
                     Len(found.matches[m].pattern.matching_rules) * 1000 >>

\* C26: match_event returns a registered pattern exactly when at least 80%
\* of its matching rules hold on the event's data fields (payload field
\* error_type equals "timeout", payload field component contains
\* "database"), with confidence = fraction of rules that hold *
\* pattern.confidence.
C26_MatchEvent ==
    matchesFound # << >> => MatchesAre(matchesFound[1], HoldsOnDataFields)

\* what match_event does: the rules are looked up by their path from the
\* serialised event, and then the 80% rule and the confidence are as said.
MatchesByPath ==
    matchesFound # << >> => MatchesAre(matchesFound[1], MatchRule)

\* with the path from the event in the rules, the event of the test is
\* matched with confidence 0.9.
MatchedByPath ==
    /\ matchesFound # << >>
    /\ matchesFound[1].registered = 1
    /\ matcherPatterns[1] = [ matching_rules |-> PathRules, confidence |-> 900 ]
    /\ Len(matchesFound[1].matches) = 1
    /\ matchesFound[1].matches[1].confidence = << 1800, 2000 >>

\* four of five rules hold: the pattern is returned.
MatchedAtEighty ==
    /\ matchesFound # << >>
    /\ \E m \in DOMAIN matchesFound[1].matches :
          /\ matchesFound[1].matches[m].pattern.matching_rules = OperatorRules
          /\ matchesFound[1].matches[m].confidence[1]
               = 4 * matchesFound[1].matches[m].pattern.confidence

\* the number of batches that hold the event.
BatchesWith(event) ==
    Cardinality({ b \in DOMAIN batches :
                    \E k \in DOMAIN batches[b].events : batches[b].events[k] = event })

\* the event waits in the buffer of the processor.
Buffered(event) == \E k \in DOMAIN buffer : buffer[k] = event

\* C27: every event handed to a BatchingProcessor, directly or through the
\* clone the event mesh makes, is passed to process_batch exactly once, at
\* batch_size or at the next timeout tick: it is never lost or in two
\* batches, and it is in a batch in the end.
C27_EveryEventBatchedOnce ==
    /\ [](\A event \in HandedIds :
             /\ BatchesWith(event) <= 1
             /\ BatchesWith(event) = 0 => Buffered(event))
    /\ \A event \in BatchEventIds :
          (event \in HandedIds) ~> (BatchesWith(event) = 1)

\* what holds: the events handed to the processor itself.
DirectIds == { handed[k].id : k \in { j \in DOMAIN handed : handed[j].via = "direct" } }

DirectEventsBatchedOnce ==
    /\ [](\A event \in DirectIds :
             /\ BatchesWith(event) <= 1
             /\ BatchesWith(event) = 0 => Buffered(event))
    /\ \A event \in BatchEventIds :
          (event \in DirectIds) ~> (BatchesWith(event) = 1)

\* an event handed over through the mesh is in a batch only when the batch
\* size is 1.
CloneEventsBatchedAtSizeOne ==
    \A k \in DOMAIN handed :
        handed[k].via = "mesh" => (BatchesWith(handed[k].id) = 1 <=> batch_size = 1)

\* the ids handle_stream_event was called with: the filter was tested and
\* the handler invoked for a match.
StreamHandledIds == { stream_handled[k].id : k \in DOMAIN stream_handled }

\* C28: a stream consumer acknowledges a message only after the
\* subscription's filter has been tested on it and, if it matched, the
\* handler has been invoked: a message is never acknowledged before its
\* handler has run.
C28_AckAfterHandler == [](acked \subseteq StreamHandledIds)

\* what holds: a message is acknowledged only once it has been read and
\* parsed, and every event that is handled was acknowledged or its XACK
\* failed.
AckedWereRead ==
    \A id \in acked :
        /\ id <= group_cursor
        /\ ParseEntry(stream_entries[id].data) # << >>

\* an acknowledged message whose handler never runs: the consumer stopped
\* between the XACK and the handling.
AckedNeverHandled ==
    /\ consumer_pc = "stopped"
    /\ acked \ StreamHandledIds # {}

\* C29: while agent.execute_task runs inside process_task, the calling
\* thread holds neither a read nor the write guard of the tasks lock, and
\* the task it passes to the agent is the clone get_task returned; so
\* get_task, update_task_status and create_task called from another thread
\* complete while the agent is executing (C29_Witness).
C29_NoTasksLockWhileExecuting ==
    \A t \in Threads :
       thread_pc[t] = "executing" =>
          /\ ~HoldsTasksLock(t)
          /\ snapshot[t] # << >>

\* get_task, update_task_status and create_task all began and returned Ok
\* inside one execute_task that is still running.
C29_Witness ==
    /\ \E t \in Threads : thread_pc[t] = "executing"
    /\ { "get_task", "update_task_status", "create_task" } \subseteq overlapped

\* the guards of the tasks lock exclude each other as an RwLock's do.
TasksLockExclusive ==
    /\ Cardinality(tasks_lock.writer) <= 1
    /\ tasks_lock.writer # {} => tasks_lock.readers = {}
\* every add_problem call so far has returned Ok, there are at least two of
\* them, none is running, and they all passed problems of one category and
\* one list of error_patterns whose fingerprint field is the computed text.
AddProblemCallsAlike ==
    /\ AddRunning = {}
    /\ Len(kgCalls) >= 2
    /\ \A k \in DOMAIN kgCalls :
          /\ kgCalls[k].op = "add_problem"
          /\ kgCalls[k].result # << >>
          /\ kgCalls[k].arg.fingerprint = GenerateFingerprint(kgCalls[k].arg)
          /\ GenerateFingerprint(kgCalls[k].arg) = GenerateFingerprint(kgCalls[1].arg)

\* one problem node exists and it has counted every call.
OneNodeCountingCalls ==
    /\ Len(nodes) = 1
    /\ nodes[1].node_type = "problem"
    /\ nodes[1].data.occurrence_count = Len(kgCalls)
    /\ \A k \in DOMAIN kgCalls : kgCalls[k].result = << nodes[1].id >>

\* C30: when n add_problem calls with the same category and error_patterns
\* run concurrently and have all returned, exactly one problem node exists
\* and its occurrence_count is n (the callers' fingerprint field being the
\* text add_problem computes, so that calls made one after the other merge).
C30_ConcurrentAddProblemMerges ==
    AddProblemCallsAlike => OneNodeCountingCalls

\* calls alike that never ran at the same time leave one node that has
\* counted them all.
SequentialAddProblemMerges ==
    (AddProblemCallsAlike /\ ~add_overlap) => OneNodeCountingCalls

\* two calls alike that ran at the same time have left two nodes, each with
\* occurrence_count 1.
ConcurrentAddProblemTwoNodes ==
    /\ AddProblemCallsAlike
    /\ add_overlap
    /\ Len(kgCalls) = 2
    /\ Len(nodes) = 2
    /\ \A i \in DOMAIN nodes : nodes[i].data.occurrence_count = 1

\* calls alike that ran at the same time on a node that was already there
\* have all been counted.
ConcurrentIncrementsCounted ==
    /\ AddProblemCallsAlike
    /\ add_overlap
    /\ Len(kgCalls) = 3
    /\ OneNodeCountingCalls
\* the executor kind the claims give each action type that has one.
RegisteredKind ==
    [ Execute |-> "execute", Configure |-> "configure", Scale |-> "scale" ]

\* the last apply call was not a dry run.
AppliedForReal == apply_result # << >> /\ ~apply_result[1].dry_run

\* C32: in a non-dry-run apply a step of type Execute, Configure or Scale
\* is dispatched to the executor registered as execute, configure or scale
\* and yields a step result; apply returns the not-found error only when a
\* step has an action type without registered executor.
C32_DispatchByKind ==
    AppliedForReal =>
       LET steps == apply_result[1].solution.steps
           result == apply_result[1].result
       IN  /\ result.ok <=>
                 \A i \in DOMAIN steps : steps[i].action_type \in DOMAIN RegisteredKind
           /\ \A k \in DOMAIN result.trace :
                 LET call == result.trace[k]
                     action_type == steps[call.step_order].action_type
                 IN  action_type \in DOMAIN RegisteredKind =>
                        /\ ~call.err
                        /\ call.executor = RegisteredKind[action_type]

\* apply returned the not-found error for a solution whose only step is
\* of type Execute.
ExecuteStepNotFound ==
    /\ AppliedForReal
    /\ Len(apply_result[1].solution.steps) = 1
    /\ apply_result[1].solution.steps[1].action_type = "Execute"
    /\ ~apply_result[1].result.ok

\* a non-dry-run apply returns Ok exactly when the solution has no step.
ForRealOkIffNoStep ==
    AppliedForReal =>
       (apply_result[1].result.ok <=> apply_result[1].solution.steps = << >>)

RECURSIVE ClaimedLoop(_, _, _)
\* the step results and the rollback steps run that C31 describes, for
\* steps that all have an executor: failing holds the << order, attempt >>
\* pairs of the executions that fail.
ClaimedLoop(failing, steps, step_results) ==
    IF steps = << >>
      THEN [ step_results |-> step_results, stopped |-> FALSE, rollback |-> FALSE ]
      ELSE
        LET step == Head(steps)
            first == [ step_order |-> step.order,
                       success |-> << step.order, 1 >> \notin failing ]
            second == [ step_order |-> step.order,
                        success |-> << step.order, 2 >> \notin failing ]
        IN  IF first.success
              THEN ClaimedLoop(failing, Tail(steps), Append(step_results, first))
            ELSE IF step.on_failure = "Retry"
              THEN IF second.success
                     THEN ClaimedLoop(failing, Tail(steps),
                                      Append(step_results, second))
                     ELSE [ step_results |-> Append(step_results, second),
                            stopped |-> TRUE, rollback |-> TRUE ]
            ELSE IF step.on_failure = "Skip"
              THEN ClaimedLoop(failing, Tail(steps), Append(step_results, first))
            ELSE [ step_results |-> Append(step_results, first),
                   stopped |-> TRUE,
                   rollback |-> step.on_failure = "Rollback" ]

\* what apply has done agrees with C31 when failing executions fail.
AppliedAsC31(applicator, solution, result) ==
    LET claimed == ClaimedLoop(applicator.failing, solution.steps, << >>) IN
    /\ result.ok
    /\ result.steps_executed = claimed.step_results
    /\ [ k \in DOMAIN result.rollback |-> result.rollback[k].step_order ]
          = IF claimed.rollback
              THEN [ k \in DOMAIN solution.rollback_steps |->
                       Reverse(solution.rollback_steps)[k].order ]
              ELSE << >>

\* C31: a non-dry-run apply of a solution whose steps have executors runs
\* the steps in list order, and handles a failed step by its on_failure:
\* Retry runs it once more, Skip records it and goes on, Abort stops with
\* no further step and no rollback step, Rollback stops and runs all of
\* rollback_steps in reverse order whatever they return.
C31_FailureStrategies ==
    (/\ AppliedForReal
     /\ \A i \in DOMAIN apply_result[1].solution.steps :
           apply_result[1].solution.steps[i].action_type \in DOMAIN RegisteredKind)
    => AppliedAsC31(NewApplicator, apply_result[1].solution, apply_result[1].result)

\* an applicator whose executors are found under the Display text of the
\* action types and fail the executions in failing.
FoundApplicator(failing) ==
    [ executors |-> { "Execute", "Configure", "Scale" }, failing |-> failing ]

\* the solutions of one step that has an executor, with their rollback
\* steps, and the executions that may fail.
OneStepSolutions ==
    { PatternSolution(<< [ action_type |-> "Execute", on_failure |-> f ] >>, rb) :
        f \in FailureStrategies, rb \in { << >>, << "Execute", "Scale" >> } }

FailingSets == SUBSET { << 1, 1 >>, << 1, 2 >>, << 11, 1 >> }

\* with executors that are found, apply handles Retry, Skip and Rollback
\* as C31 says, a dry run never fails a step, ..
FoundStrategiesButAbort ==
    \A solution \in OneStepSolutions, failing \in FailingSets :
       solution.steps[1].on_failure # "Abort" =>
          AppliedAsC31(FoundApplicator(failing), solution,
                       ApplicatorApply(FoundApplicator(failing), solution, FALSE))

\* .. and a failed step with Abort runs every rollback step, in reverse
\* order, just as Rollback does.
FoundAbortRunsRollback ==
    \A solution \in OneStepSolutions, failing \in FailingSets :
       (solution.steps[1].on_failure = "Abort" /\ << 1, 1 >> \in failing) =>
          LET result == ApplicatorApply(FoundApplicator(failing), solution, FALSE)
          IN  /\ result.ok /\ ~result.success
              /\ [ k \in DOMAIN result.rollback |-> result.rollback[k].step_order ]
                    = [ k \in DOMAIN solution.rollback_steps |->
                          Reverse(solution.rollback_steps)[k].order ]
\* the event has been given to the dead-letter handler.
DeadLettered(id) == \E k \in DOMAIN dead_letters : dead_letters[k].id = id

\* after the step the event is waiting to be processed with the given
\* retry_attempts.
AwaitsProcessing(id, attempts) ==
    \E k \in DOMAIN eh_inbox' :
       /\ eh_inbox'[k].id = id
       /\ eh_inbox'[k].retry_attempts = attempts

\* the process() call made by this step, when the step is one.
ErrorProcessed == eh_log' # eh_log

\* C33: process() on a failed event with recorded attempts a and limit N:
\* if a < N the event is processed again with retry_attempts = a + 1 after
\* the delay; if a >= N and a dead-letter handler is configured the handler
\* gets the event exactly once; no event is retried more than N times, and
\* every failed event routed to a processor with a handler eventually
\* reaches the handler.
C33_RetryThenDeadLetter ==
    /\ [][ ErrorProcessed =>
             LET call == eh_log'[Len(eh_log')]
                 limit == eh_processor[1].retry_attempts
             IN  /\ call.attempts < limit =>
                      /\ call.slept
                      /\ AwaitsProcessing(call.event.id, << call.attempts + 1 >>)
                 /\ (call.attempts >= limit /\ eh_processor[1].dead_letter_handler) =>
                      /\ dead_letters' = Append(dead_letters, call.event)
                      /\ ~DeadLettered(call.event.id) ]_vars
    /\ [](\A k \in DOMAIN eh_log :
             eh_log[k].branch = "retry" =>
                eh_log[k].attempts < eh_processor[1].retry_attempts)
    /\ \A id \in 1..MaxErrorEvents :
          ((\E k \in DOMAIN eh_inbox : eh_inbox[k].id = id)
              /\ eh_processor[1].dead_letter_handler)
          ~> DeadLettered(id)

\* at or above the limit, process() gives the event to the configured
\* handler once and to nobody without one; below the limit it sleeps and
\* the handler is not called; no event is retried at or above the limit.
DeadLetterAtLimit ==
    /\ [][ ErrorProcessed =>
             LET call == eh_log'[Len(eh_log')]
                 limit == eh_processor[1].retry_attempts
             IN  IF call.attempts >= limit /\ eh_processor[1].dead_letter_handler
                   THEN dead_letters' = Append(dead_letters, call.event)
                   ELSE /\ dead_letters' = dead_letters
                        /\ call.slept <=> call.attempts < limit ]_vars
    /\ [](\A k \in DOMAIN eh_log :
             eh_log[k].branch = "retry" =>
                eh_log[k].attempts < eh_processor[1].retry_attempts)

\* what process() does below the limit: the event is gone after the call,
\* nothing is waiting to be processed with the next attempt number.
RetryDropsEvent ==
    [][ (ErrorProcessed /\ eh_log'[Len(eh_log')].branch = "retry") =>
           \A k \in DOMAIN eh_inbox' :
              eh_inbox'[k].id # eh_log'[Len(eh_log')].event.id ]_vars

\* a failed event below the limit was processed, is waiting nowhere and
\* was never given to the configured dead-letter handler.
RetriedEventLost ==
    /\ eh_processor # << >>
    /\ eh_processor[1].dead_letter_handler
    /\ eh_inbox = << >>
    /\ \E k \in DOMAIN eh_log :
          /\ eh_log[k].branch = "retry"
          /\ ~DeadLettered(eh_log[k].event.id)
(***************************************************************************)
(* Evolution of stored patterns.                                           *)
(***************************************************************************)
\* a step of evolve_patterns that stores an evolved pattern.
EvolveStored == evolve_pc = "updating" /\ evolve_results' # evolve_results

\* evolve_patterns returns.
EvolveReturned == evolve_pc = "updating" /\ evolve_pc' = "idle"

\* eligible at the time evolve_all ran: applied at least 10 times, confidence
\* below 0.9, updated more than 7 days (14 half days) before.
Eligible(pattern, now) ==
    /\ pattern.metrics.application_count >= 10
    /\ FracGreater(<< 9, 10 >>, pattern.metrics.confidence_score)
    /\ now - pattern.updated_at > 14

\* C34: evolve_patterns changes a stored pattern only if that pattern is
\* eligible (application_count >= 10, confidence_score < 0.9, more than 7
\* days since updated_at), and when it returns every eligible pattern is
\* stored with evolution_count one higher and a later updated_at.
C34_EvolveEligiblePatterns ==
    /\ [][ EvolveStored =>
             \A p \in DOMAIN patterns :
                patterns'[p] # patterns[p] =>
                   Eligible(evolve_snapshot[p], evolve_at) ]_vars
    /\ [][ EvolveReturned =>
             \A p \in DOMAIN evolve_snapshot :
                Eligible(evolve_snapshot[p], evolve_at) =>
                   /\ patterns'[p].metrics.evolution_count =
                         evolve_snapshot[p].metrics.evolution_count + 1
                   /\ patterns'[p].updated_at > evolve_snapshot[p].updated_at ]_vars

\* what evolve_patterns does: it stores a pattern only if should_evolve held
\* for it, and when it returns the stored evolution_count is one higher
\* exactly for the patterns that should_evolve and whose confidence_score
\* is below 0.5; the others keep their evolution_count.
EvolveStoresOnlyChanged ==
    /\ [][ EvolveStored =>
             \A p \in DOMAIN patterns :
                patterns'[p] # patterns[p] =>
                   ShouldEvolve(evolve_snapshot[p], evolve_at) ]_vars
    /\ [][ EvolveReturned =>
             \A p \in DOMAIN evolve_snapshot :
                patterns'[p].metrics.evolution_count =
                   evolve_snapshot[p].metrics.evolution_count +
                   (IF /\ ShouldEvolve(evolve_snapshot[p], evolve_at)
                       /\ FracGreater(<< 1, 2 >>,
                              evolve_snapshot[p].metrics.confidence_score)
                      THEN 1 ELSE 0) ]_vars

\* evolve_patterns ran on a pattern applied 10 times with confidence 0.7 and
\* updated 8 days before, and is about to return with the pattern as it was.
EligiblePatternNotEvolved ==
    /\ evolve_pc = "updating"
    /\ evolve_results = {}
    /\ \E p \in DOMAIN evolve_snapshot :
          /\ evolve_snapshot[p].metrics.application_count = 10
          /\ evolve_snapshot[p].metrics.confidence_score = << 7, 10 >>
          /\ evolve_at - evolve_snapshot[p].updated_at = 16
          /\ patterns[p] = evolve_snapshot[p]

\* evolve_patterns stored an evolved pattern: confidence 0.4, marked for
\* review, evolution_count 1.
LowConfidencePatternEvolved ==
    /\ evolve_pc = "updating"
    /\ evolve_results = {}
    /\ \E p \in DOMAIN evolve_snapshot :
          /\ evolve_snapshot[p].metrics.evolution_count = 0
          /\ patterns[p].metrics.evolution_count = 1
          /\ patterns[p].needs_review
(***************************************************************************)
(* average_resolution_time.                                                *)
(***************************************************************************)
\* the metrics of the applied pattern before and after the last call.
MetricsBefore == patterns[applied'[1].pattern_id].metrics

MetricsAfter == patterns'[applied'[1].pattern_id].metrics

\* C35: after the n-th application of a pattern average_resolution_time is
\* the running mean of the n durations in whole seconds: (old average *
\* (n - 1) + duration) / n, so after a single application of duration d it
\* is d.
C35_RunningMean ==
    [][ applied' # applied /\ applied'[1].ok =>
          MetricsAfter.average_resolution_time =
             (MetricsBefore.average_resolution_time
                 * (MetricsAfter.application_count - 1)
              + applied'[1].duration) \div MetricsAfter.application_count ]_vars

\* what update_pattern_metrics stores: the old average weighted with the
\* new application_count n, divided by n + 1.
AverageCountsOneMore ==
    [][ applied' # applied /\ applied'[1].ok =>
          MetricsAfter.average_resolution_time =
             (MetricsBefore.average_resolution_time
                 * MetricsAfter.application_count
              + applied'[1].duration) \div (MetricsAfter.application_count + 1) ]_vars

\* a pattern applied once, for 3 seconds, has average_resolution_time 1.
FirstApplicationHalved ==
    /\ applied # << >>
    /\ applied[1].ok
    /\ applied[1].call = libraryCalls
    /\ applied[1].duration = 3
    /\ patterns[applied[1].pattern_id].metrics.application_count = 1
    /\ patterns[applied[1].pattern_id].metrics.average_resolution_time = 1
(***************************************************************************)
(* apply_pattern while evolve_patterns runs.                               *)
(***************************************************************************)
\* C39: a metric update made by apply_pattern is never undone by a
\* concurrent evolve_patterns: the application_count of a stored pattern
\* never decreases, and it counts every completed application.
C39_ApplicationsSurviveEvolve ==
    /\ [][ \A p \in DOMAIN patterns :
              patterns'[p].metrics.application_count
                 >= patterns[p].metrics.application_count ]_vars
    /\ [](\A p \in DOMAIN patterns :
             patterns[p].metrics.application_count = applications[p])

\* what the code does: only the step of evolve_patterns that stores an
\* evolved pattern changes a count other than by one application, and it
\* stores the counts evolve_patterns cloned.
OnlyEvolveUndoes ==
    [][ \A p \in DOMAIN patterns :
           patterns'[p].metrics.application_count
              # applications'[p] - applications[p]
                + patterns[p].metrics.application_count
           => /\ EvolveStored
              /\ patterns'[p].metrics.application_count
                    = evolve_snapshot[p].metrics.application_count ]_vars

\* both calls have returned and the stored pattern counts one application
\* less than were completed.
ApplicationUndone ==
    /\ evolve_pc = "idle"
    /\ apply_held = << >>
    /\ \E p \in DOMAIN patterns :
          /\ applications[p] = 11
          /\ patterns[p].metrics.application_count = 10
          /\ patterns[p].metrics.evolution_count = 1
(***************************************************************************)
(* create_task returning an error.                                         *)
(***************************************************************************)
\* a create_task call returns Err: its enqueue failed.
CreateTaskFailed ==
    /\ Len(executed') = Len(executed) + 1
    /\ failures' = failures + 1

\* the task with this id has an entry in some queue of rd.
QueuedIn(rd, task_id) ==
    \E q \in Queues : \E k \in DOMAIN rd[q] : rd[q][k].task_id = task_id

\* C36: if create_task returns an error, the task table is left unchanged:
\* no task created by that call remains in it, so no task sits in pending
\* without a queue entry.
C36_FailedCreateLeavesNoTask ==
    [][ CreateTaskFailed => tasks' = tasks ]_vars

\* what create_task does when the enqueue fails: the task it inserted stays
\* in the table, pending, and no queue has an entry for it.
FailedCreateKeepsTask ==
    [][ CreateTaskFailed =>
          /\ Len(tasks') = Len(tasks) + 1
          /\ \A t \in DOMAIN tasks : tasks'[t] = tasks[t]
          /\ tasks'[Len(tasks')].status = "pending"
          /\ ~QueuedIn(redis', Len(tasks')) ]_vars

\* a task is in the table, pending, never executed, and in no queue.
PendingWithoutQueueEntry ==
    \E t \in DOMAIN tasks :
       /\ tasks[t].status = "pending"
       /\ executed[t] = << >>
       /\ ~QueuedIn(redis, t)
       /\ \A q \in Queues : held[q] = << >>
       /\ failures = 1
(***************************************************************************)
(* The task-table lock and the queue-service lock.                         *)
(***************************************************************************)
\* a waits for a lock that b holds.
WaitsOn(a, b) ==
    \/ WaitsFor(tasks_rwlock, a) /\ HoldsGuard(tasks_rwlock, b)
    \/ WaitsFor(queue_rwlock, a) /\ HoldsGuard(queue_rwlock, b)

\* C37: no interleaving of create_task, get_task, update_task_status and
\* the queue consumers deadlocks: no caller waits for a lock it holds, no
\* two callers wait for each other across the task-table lock and the
\* queue-service lock, and every caller waiting for either lock eventually
\* holds it.
C37_NoDeadlock ==
    /\ [](\A a, b \in GuardThreads : ~(WaitsOn(a, b) /\ WaitsOn(b, a)))
    /\ \A t \in GuardThreads :
          /\ WaitsFor(tasks_rwlock, t) ~> HoldsGuard(tasks_rwlock, t)
          /\ WaitsFor(queue_rwlock, t) ~> HoldsGuard(queue_rwlock, t)

\* a call asks for a lock only when it holds none.
AsksWithEmptyHands ==
    [](\A t \in GuardThreads :
          WaitsFor(tasks_rwlock, t) \/ WaitsFor(queue_rwlock, t) =>
             ~HoldsGuard(tasks_rwlock, t) /\ ~HoldsGuard(queue_rwlock, t))

\* a consumer is blocked in its dequeue with the queue-service lock, and
\* the other consumer, about to requeue, and a create_task, about to
\* enqueue, wait for that lock in this order.
C37_Witness ==
    /\ guard_pc["import"] = "dequeue_hold"
    /\ HoldsGuard(queue_rwlock, "import")
    /\ guard_pc["validation"] = "requeue_wait"
    /\ guard_pc["caller"] = "enqueue_wait"
    /\ queue_rwlock.waiters = << [ thread |-> "validation", write |-> TRUE ],
                                 [ thread |-> "caller", write |-> TRUE ] >>

\* a consumer holds the task-table lock in queue_next_agent, and a get_task
\* and the other consumer's update_task_status wait for it.
C37_WitnessTasks ==
    /\ guard_pc["import"] = "next_hold"
    /\ guard_pc["caller"] = "get_wait"
    /\ guard_pc["validation"] = "status_wait"
(***************************************************************************)
(* update_solution_outcome called concurrently.                            *)
(***************************************************************************)
\* the update_solution_outcome calls on this solution that returned Ok, and
\* those of them that reported a success.
OutcomeCalls(solution_id) ==
    { k \in DOMAIN kgCalls :
         /\ kgCalls[k].op = "update_solution_outcome"
         /\ kgCalls[k].result = << solution_id >> }

SuccessCalls(solution_id) ==
    { k \in OutcomeCalls(solution_id) : kgCalls[k].arg[2] }

\* the stored solution has counted every returned call on it: its counters
\* are those it was added with plus the calls and the successes.
CountsEveryOutcome(i) ==
    \A k \in DOMAIN kgCalls :
       (kgCalls[k].op = "add_solution" /\ kgCalls[k].result = << nodes[i].id >>) =>
          /\ nodes[i].data.attempt_count =
                kgCalls[k].arg.attempt_count + Cardinality(OutcomeCalls(nodes[i].id))
          /\ nodes[i].data.success_count =
                kgCalls[k].arg.success_count + Cardinality(SuccessCalls(nodes[i].id))

\* C38: concurrent update_solution_outcome calls on one solution lose no
\* update: once the n calls have returned, k of them with success,
\* attempt_count has grown by n and success_count by k.
C38_NoLostOutcome ==
    OutcomeRunning = {} => \A i \in DOMAIN nodes : CountsEveryOutcome(i)

\* a call that selects while no other call is between its SELECT and its
\* UPDATE, and is left alone until its own UPDATE, is counted: the counters
\* are wrong only after an UPDATE computed from a solution that is no
\* longer the stored one.
OutcomeLostOnlyWhenStale ==
    [][ \A c \in OutcomeCallers :
          (/\ outcome_pc[c] = "update"
           /\ outcome_pc'[c] = "idle"
           /\ \A i \in DOMAIN nodes : CountsEveryOutcome(i)
           /\ \E i \in DOMAIN nodes :
                 /\ nodes[i].id = outcome_arg[c][1]
                 /\ nodes[i].data = outcome_read[c][1])
          => \A i \in DOMAIN nodes : CountsEveryOutcome(i)' ]_vars

\* two calls on one solution added with zero counters have returned Ok,
\* one of them with success, and attempt_count is 1.
OutcomeLost ==
    /\ OutcomeRunning = {}
    /\ Len(nodes) = 1
    /\ Cardinality(OutcomeCalls(nodes[1].id)) = 2
    /\ Cardinality(SuccessCalls(nodes[1].id)) = 1
    /\ nodes[1].data.attempt_count = 1
(***************************************************************************)
(* register and deregister called concurrently.                            *)
(***************************************************************************)
\* an id is in the services map exactly when it is in the health tracker.
ServicesMatchHealth ==
    \A id \in ServiceIds : services[id] # << >> <=> health_tracker[id] # << >>

\* the capability index lists no id that is absent from the services map.
IndexListsServices ==
    \A cap \in Capabilities : \A k \in DOMAIN capabilities_index[cap] :
       services[capabilities_index[cap][k]] # << >>

\* C40: after any interleaving of concurrent register and deregister calls,
\* once all have returned, an id is in the services map exactly when it is
\* in the health tracker, and the capability index lists no id absent from
\* the services map.
C40_RegistryConsistent ==
    RegistryRunning = {} => ServicesMatchHealth /\ IndexListsServices

\* calls that never ran at the same time leave the services map and the
\* health tracker with the same ids.
SequentialServicesMatchHealth ==
    (RegistryRunning = {} /\ ~register_overlap) => ServicesMatchHealth

\* a register and a deregister of one id ran at the same time and have
\* returned: the id is gone from the services map, the health tracker has
\* it and the capability index lists it.
DeregisteredServiceLeftBehind ==
    /\ RegistryRunning = {}
    /\ registryCalls = 2
    /\ services[1] = << >>
    /\ health_tracker[1] # << >>
    /\ capabilities_index["HealthCheck"] = << 1 >>
====
